---- MODULE Spec2Model ----
(***************************************************************************)
(* Block-trace decoding of trace_decoder/src/decoding.rs: process_txns     *)
(* replays the transactions of one block against the partial trie state,   *)
(* pads the IR list with dummy entries and folds the withdrawals into the  *)
(* last entry.                                                             *)
(*                                                                         *)
(* Abstractions.  A trie is the record [m, all, vis]: m is the key-value   *)
(* content the root commits to, and a key's path is un-hashed when all is  *)
(* TRUE or the key is in vis.  The root hash of a trie is modelled by the  *)
(* collision-free image of its content.  RLP encoding of an account is not *)
(* modelled: the state trie stores the account record.  The trie            *)
(* primitives, the subset builder and the branch-collapse report are not   *)
(* part of decoding.rs and follow their contracts.                         *)
(*                                                                         *)
(* txns and produced are history variables: the transactions consumed so   *)
(* far and the units process_txn_info returned for them.  Before the first *)
(* transaction tries_at_start_of_txn holds the pre-image.                  *)
(***************************************************************************)
EXTENDS Integers, Sequences, FiniteSets, TLC

\* ---------------------------------------------------------------- bounds
MaxTxns == 3
MaxWithdrawals == 2
MaxGas == 2

\* ---------------------------------------------------------------- values
None == <<>>
Some(x) == <<x>>
IsSome(o) == o # <<>>
Unwrap(o) == o[1]

Addrs == {"a", "b"}
HAddrs == {"A", "B"}
Slots == {"s1", "s2"}
HSlots == {"S1", "S2"}

\* keccak of an address, of a storage slot key or of the bytes of a hashed
\* slot key (utils::hash): injective, never the identity
hash(x) ==
  CASE x = "a" -> "A"
    [] x = "b" -> "B"
    [] x = "s1" -> "S1"
    [] x = "s2" -> "S2"
    [] x = "S1" -> "HS1"
    [] x = "S2" -> "HS2"

\* RLP of the storage value zero: the byte 0x80
ZERO_STORAGE_SLOT_VAL_RLPED == 128
StorageVals == {ZERO_STORAGE_SLOT_VAL_RLPED, 1, 2}

\* rlp::encode(&txn_idx) as a trie key: 0 encodes as 0x80, 1..127 as themselves
TxnKey(txn_idx) == IF txn_idx = 0 THEN 128 ELSE txn_idx

\* ---------------------------------------------------------------- tries
EmptyMap == [k \in {} |-> 0]
MapPut(m, k, v) == [x \in (DOMAIN m) \cup {k} |-> IF x = k THEN v ELSE m[x]]
MapDel(m, k) == [x \in (DOMAIN m) \ {k} |-> m[x]]

FullTrie(m) == [m |-> m, all |-> TRUE, vis |-> {}]
\* HashedPartialTrie::new(Node::Hash(root)): only the root hash is known
HashNodeTrie(root) == [m |-> root, all |-> FALSE, vis |-> {}]
\* HashedPartialTrie::default()
EmptyTrie == FullTrie(EmptyMap)

TrieHash(t) == t.m
Visible(t, k) == t.all \/ k \in t.vis

\* PartialTrie::get: the value under k, None when absent or behind a hash node
TrieGet(t, k) == IF Visible(t, k) /\ k \in DOMAIN t.m THEN Some(t.m[k]) ELSE None

\* PartialTrie::insert: fails when the path of k runs into a hash node
TrieInsertOk(t, k) == Visible(t, k)
TrieInsert(t, k, v) == [t EXCEPT !.m = MapPut(t.m, k, v)]

\* PartialTrie::delete: removes k when its path is un-hashed, else no change
TrieDelete(t, k) == IF Visible(t, k) THEN [t EXCEPT !.m = MapDel(t.m, k)] ELSE t

\* create_trie_subset: keeps the paths of keys, hashes out the rest; fails on
\* a key whose path is not in the trie
SubsetMissing(t, keys) == {k \in keys : ~Visible(t, k)}
TrieSubset(t, keys) == [m |-> t.m, all |-> FALSE, vis |-> keys]

\* ---------------------------------------------------------------- accounts
EmptyTrieHash == TrieHash(EmptyTrie)
EmptyCodeHash == "code0"
EMPTY_ACCOUNT == [balance |-> 0, nonce |-> 0, storage_root |-> EmptyTrieHash,
                  code_hash |-> EmptyCodeHash]

\* ---------------------------------------------------------------- errors
\* TraceParsingError::new
NewError(reason) ==
  [reason |-> reason, block_num |-> None, block_chain_id |-> None,
   txn_idx |-> None, addr |-> None, h_addr |-> None, slot |-> None,
   slot_value |-> None]

WithBlockNum(e, n) == [e EXCEPT !.block_num = Some(n)]
WithBlockChainId(e, c) == [e EXCEPT !.block_chain_id = Some(c)]
\* txn_idx that drops the hashed address attached earlier
WithTxnIdx_DropsHAddr(e, i) == [e EXCEPT !.txn_idx = Some(i), !.h_addr = None]
WithTxnIdx(e, i) == [e EXCEPT !.txn_idx = Some(i)]
WithAddr(e, a) == [e EXCEPT !.addr = Some(a)]
WithHAddr(e, h) == [e EXCEPT !.h_addr = Some(h)]
WithSlot(e, s) == [e EXCEPT !.slot = Some(s)]
WithSlotValue(e, v) == [e EXCEPT !.slot_value = Some(v)]

MissingAccountStorageTrie(h) == <<"MissingAccountStorageTrie", h>>
MissingWithdrawalAccount(a, h, amt) == <<"MissingWithdrawalAccount", a, h, amt>>
MissingKeysCreatingSubPartialTrie(k, ty) == <<"MissingKeysCreatingSubPartialTrie", k, ty>>
TrieOpError(k) == <<"TrieOpError", k>>

\* ---------------------------------------------------------------- error display
\* utils::optional_field: "label: {:?}" and a line break for a value, the
\* empty string for None.  A rendered message is the sequence of its lines.
optional_field(label, value) ==
  IF IsSome(value) THEN << <<label, "debug", Unwrap(value)>> >> ELSE <<>>

\* utils::optional_field_hex: the value as 0x and 64 hex digits
optional_field_hex(label, value) ==
  IF IsSome(value) THEN << <<label, "hex", Unwrap(value)>> >> ELSE <<>>

\* Display that prints an absent block number as an empty value
Display_PrintsAbsentBlockNum(e) ==
  LET h_slot == IF IsSome(e.slot) THEN Some(hash(Unwrap(e.slot))) ELSE None
  IN  << <<"Error processing trace", "display", e.reason>> >>
        \o << <<"Block num", "debug", e.block_num>> >>
        \o optional_field("Block chain id", e.block_chain_id)
        \o optional_field("Txn idx", e.txn_idx)
        \o optional_field("Address", e.addr)
        \o optional_field("Hashed address", e.h_addr)
        \o optional_field_hex("Slot", e.slot)
        \o optional_field("Hashed Slot", h_slot)
        \o optional_field_hex("Slot value", e.slot_value)

\* impl Display for TraceParsingError and for TraceDecodingError (the two
\* bodies are the same)
Display(e) ==
  LET h_slot == IF IsSome(e.slot) THEN Some(hash(Unwrap(e.slot))) ELSE None
  IN  << <<"Error processing trace", "display", e.reason>> >>
        \o optional_field("Block num", e.block_num)
        \o optional_field("Block chain id", e.block_chain_id)
        \o optional_field("Txn idx", e.txn_idx)
        \o optional_field("Address", e.addr)
        \o optional_field("Hashed address", e.h_addr)
        \o optional_field_hex("Slot", e.slot)
        \o optional_field("Hashed Slot", h_slot)
        \o optional_field_hex("Slot value", e.slot_value)

\* ---------------------------------------------------------------- delta application
\* TrieDeltaApplicationOutput::default()
EmptyDeltaOut ==
  [additional_state_trie_paths_to_not_hash |-> <<>>,
   additional_storage_trie_paths_to_not_hash |-> EmptyMap]

\* Deletes k from the trie and reports the key of the only remaining child
\* when the delete collapsed a branch.  Every key hangs off the root branch,
\* so the branch collapses exactly when two entries become one.
delete_node_and_report_remaining_key_if_branch_collapsed(t, k) ==
  LET K == DOMAIN t.m
      t2 == TrieDelete(t, k)
  IN  [trie |-> t2,
       remaining |-> IF Visible(t, k) /\ k \in K /\ Cardinality(K) = 2
                     THEN Some(CHOOSE x \in K : x # k)
                     ELSE None]

\* ApplySlotWrite without the zero-value case: every value is inserted
ApplySlotWrite_AlwaysInsert(st, slot, val) ==
  LET k == hash(slot) IN
  IF TrieInsertOk(st.trie, k)
  THEN [st EXCEPT !.trie = TrieInsert(st.trie, k, val)]
  ELSE [st EXCEPT !.err =
          Some(WithSlotValue(WithSlot(NewError(TrieOpError(k)), k), val))]

\* ApplySlotWrite that treats every value as the zero value: always a delete
ApplySlotWrite_AlwaysDelete(st, slot, val) ==
  LET k == hash(slot)
      d == delete_node_and_report_remaining_key_if_branch_collapsed(st.trie, k)
  IN  [st EXCEPT !.trie = d.trie,
                 !.paths = IF IsSome(d.remaining)
                           THEN Append(st.paths, Unwrap(d.remaining))
                           ELSE st.paths]

\* One (slot, val) write of the inner loop of the storage-write pass.
\* st is [trie, paths, err]: the storage trie, the collapse paths, the error.
ApplySlotWrite(st, slot, val) ==
  LET k == hash(slot) IN
  IF val # ZERO_STORAGE_SLOT_VAL_RLPED
  THEN IF TrieInsertOk(st.trie, k)
       THEN [st EXCEPT !.trie = TrieInsert(st.trie, k, val)]
       ELSE [st EXCEPT !.err =
               Some(WithSlotValue(WithSlot(NewError(TrieOpError(k)), k), val))]
  ELSE LET d == delete_node_and_report_remaining_key_if_branch_collapsed(st.trie, k)
       IN  [st EXCEPT !.trie = d.trie,
                      !.paths = IF IsSome(d.remaining)
                                THEN Append(st.paths, Unwrap(d.remaining))
                                ELSE st.paths]

RECURSIVE ApplySlotWrites(_, _, _)
ApplySlotWrites(st, writes, i) ==
  IF i > Len(writes) \/ IsSome(st.err) THEN st
  ELSE ApplySlotWrites(ApplySlotWrite(st, writes[i][1], writes[i][2]), writes, i + 1)

\* ApplyStorageWrite whose missing-trie error carries no hashed address
ApplyStorageWrite_NoHAddr(acc, h, writes) ==
  IF h \notin DOMAIN acc.ts.storage
  THEN [acc EXCEPT !.err = Some(NewError(MissingAccountStorageTrie(h)))]
  ELSE LET old == acc.out.additional_storage_trie_paths_to_not_hash
           st0 == [trie |-> acc.ts.storage[h],
                   paths |-> IF h \in DOMAIN old THEN old[h] ELSE <<>>,
                   err |-> None]
           st == ApplySlotWrites(st0, writes, 1)
       IN  [ts |-> [acc.ts EXCEPT !.storage = MapPut(acc.ts.storage, h, st.trie)],
            out |-> [acc.out EXCEPT !.additional_storage_trie_paths_to_not_hash =
                       IF st.paths = <<>> THEN old ELSE MapPut(old, h, st.paths)],
            err |-> st.err]

\* ApplyStorageWrite that starts from an empty trie when the account has none
ApplyStorageWrite_CreatesTrie(acc, h, writes) ==
  LET old == acc.out.additional_storage_trie_paths_to_not_hash
      st0 == [trie |-> IF h \in DOMAIN acc.ts.storage THEN acc.ts.storage[h]
                       ELSE EmptyTrie,
              paths |-> IF h \in DOMAIN old THEN old[h] ELSE <<>>,
              err |-> None]
      st == ApplySlotWrites(st0, writes, 1)
  IN  [ts |-> [acc.ts EXCEPT !.storage = MapPut(acc.ts.storage, h, st.trie)],
       out |-> [acc.out EXCEPT !.additional_storage_trie_paths_to_not_hash =
                  IF st.paths = <<>> THEN old ELSE MapPut(old, h, st.paths)],
       err |-> st.err]

\* One (hashed_acc_addr, storage_writes) entry of deltas.storage_writes.
\* acc is [ts, out, err].
ApplyStorageWrite(acc, h, writes) ==
  IF h \notin DOMAIN acc.ts.storage
  THEN [acc EXCEPT !.err = Some(WithHAddr(NewError(MissingAccountStorageTrie(h)), h))]
  ELSE LET old == acc.out.additional_storage_trie_paths_to_not_hash
           st0 == [trie |-> acc.ts.storage[h],
                   paths |-> IF h \in DOMAIN old THEN old[h] ELSE <<>>,
                   err |-> None]
           st == ApplySlotWrites(st0, writes, 1)
       IN  [ts |-> [acc.ts EXCEPT !.storage = MapPut(acc.ts.storage, h, st.trie)],
            out |-> [acc.out EXCEPT !.additional_storage_trie_paths_to_not_hash =
                       IF st.paths = <<>> THEN old ELSE MapPut(old, h, st.paths)],
            err |-> st.err]

RECURSIVE ApplyStorageWrites(_, _, _)
ApplyStorageWrites(acc, sws, i) ==
  IF i > Len(sws) \/ IsSome(acc.err) THEN acc
  ELSE ApplyStorageWrites(ApplyStorageWrite(acc, sws[i][1], sws[i][2]), sws, i + 1)

update_val_if_some(target, opt) == IF IsSome(opt) THEN Unwrap(opt) ELSE target

\* StateTrieWrites::apply_writes_to_state_node: [account, err]
apply_writes_to_state_node(w, state_node, h_addr, acc_storage_tries) ==
  IF w.storage_trie_change /\ h_addr \notin DOMAIN acc_storage_tries
  THEN [account |-> state_node,
        err |-> Some(WithHAddr(NewError(MissingAccountStorageTrie(h_addr)), h_addr))]
  ELSE LET storage_root_hash_change ==
             IF w.storage_trie_change
             THEN Some(TrieHash(acc_storage_tries[h_addr]))
             ELSE None
       IN  [account |->
              [balance |-> update_val_if_some(state_node.balance, w.balance),
               nonce |-> update_val_if_some(state_node.nonce, w.nonce),
               storage_root |-> update_val_if_some(state_node.storage_root,
                                                   storage_root_hash_change),
               code_hash |-> update_val_if_some(state_node.code_hash, w.code_hash)],
            err |-> None]

\* ApplyStateWrite that starts from the empty account even when one exists
ApplyStateWrite_FromEmpty(acc, h, w) ==
  LET r == apply_writes_to_state_node(w, EMPTY_ACCOUNT, h, acc.ts.storage)
  IN  IF IsSome(r.err) THEN [acc EXCEPT !.err = r.err]
      ELSE IF TrieInsertOk(acc.ts.state, h)
           THEN [acc EXCEPT !.ts.state = TrieInsert(acc.ts.state, h, r.account)]
           ELSE acc

\* One (hashed_acc_addr, s_trie_writes) entry of deltas.state_writes
ApplyStateWrite(acc, h, w) ==
  LET got == TrieGet(acc.ts.state, h)
      account == IF IsSome(got) THEN Unwrap(got) ELSE EMPTY_ACCOUNT
      r == apply_writes_to_state_node(w, account, h, acc.ts.storage)
  IN  IF IsSome(r.err) THEN [acc EXCEPT !.err = r.err]
      ELSE IF TrieInsertOk(acc.ts.state, h)
           THEN [acc EXCEPT !.ts.state = TrieInsert(acc.ts.state, h, r.account)]
           ELSE acc

RECURSIVE ApplyStateWrites(_, _, _)
ApplyStateWrites(acc, stws, i) ==
  IF i > Len(stws) \/ IsSome(acc.err) THEN acc
  ELSE ApplyStateWrites(ApplyStateWrite(acc, stws[i][1], stws[i][2]), stws, i + 1)

\* ApplySelfDestruct that looks the storage trie up without removing it
ApplySelfDestruct_KeepStorage(acc, h) ==
  IF h \notin DOMAIN acc.ts.storage
  THEN [acc EXCEPT !.err = Some(WithHAddr(NewError(MissingAccountStorageTrie(h)), h))]
  ELSE LET d == delete_node_and_report_remaining_key_if_branch_collapsed(acc.ts.state, h)
           old == acc.out.additional_state_trie_paths_to_not_hash
       IN  [ts |-> [acc.ts EXCEPT !.state = d.trie],
            out |-> [acc.out EXCEPT !.additional_state_trie_paths_to_not_hash =
                       IF IsSome(d.remaining) THEN Append(old, Unwrap(d.remaining))
                       ELSE old],
            err |-> None]

\* ApplySelfDestruct that drops the key reported by a collapsed branch
ApplySelfDestruct_NoRecord(acc, h) ==
  IF h \notin DOMAIN acc.ts.storage
  THEN [acc EXCEPT !.err = Some(WithHAddr(NewError(MissingAccountStorageTrie(h)), h))]
  ELSE LET d == delete_node_and_report_remaining_key_if_branch_collapsed(acc.ts.state, h)
       IN  [ts |-> [acc.ts EXCEPT !.storage = MapDel(acc.ts.storage, h),
                                  !.state = d.trie],
            out |-> acc.out,
            err |-> None]

\* One entry of deltas.self_destructed_accounts
ApplySelfDestruct(acc, h) ==
  IF h \notin DOMAIN acc.ts.storage
  THEN [acc EXCEPT !.err = Some(WithHAddr(NewError(MissingAccountStorageTrie(h)), h))]
  ELSE LET d == delete_node_and_report_remaining_key_if_branch_collapsed(acc.ts.state, h)
           old == acc.out.additional_state_trie_paths_to_not_hash
       IN  [ts |-> [acc.ts EXCEPT !.storage = MapDel(acc.ts.storage, h),
                                  !.state = d.trie],
            out |-> [acc.out EXCEPT !.additional_state_trie_paths_to_not_hash =
                       IF IsSome(d.remaining) THEN Append(old, Unwrap(d.remaining))
                       ELSE old],
            err |-> None]

RECURSIVE ApplySelfDestructs(_, _, _)
ApplySelfDestructs(acc, sds, i) ==
  IF i > Len(sds) \/ IsSome(acc.err) THEN acc
  ELSE ApplySelfDestructs(ApplySelfDestruct(acc, sds[i]), sds, i + 1)

\* apply_deltas_to_trie_state with the state-write pass ahead of the
\* storage-write pass
apply_deltas_to_trie_state_StateFirst(trie_state, deltas) ==
  LET a0 == [ts |-> trie_state, out |-> EmptyDeltaOut, err |-> None]
      a1 == ApplyStateWrites(a0, deltas.state_writes, 1)
      a2 == ApplyStorageWrites(a1, deltas.storage_writes, 1)
      a3 == ApplySelfDestructs(a2, deltas.self_destructed_accounts, 1)
  IN  a3

\* apply_deltas_to_trie_state that rolls the trie state back on an error
apply_deltas_to_trie_state_Atomic(trie_state, deltas) ==
  LET a0 == [ts |-> trie_state, out |-> EmptyDeltaOut, err |-> None]
      a1 == ApplyStorageWrites(a0, deltas.storage_writes, 1)
      a2 == ApplyStateWrites(a1, deltas.state_writes, 1)
      a3 == ApplySelfDestructs(a2, deltas.self_destructed_accounts, 1)
  IN  IF IsSome(a3.err) THEN [a0 EXCEPT !.err = a3.err] ELSE a3

\* apply_deltas_to_trie_state: [ts, out, err]; ts is the live trie state as
\* the call leaves it, also when it returns an error
apply_deltas_to_trie_state(trie_state, deltas) ==
  LET a0 == [ts |-> trie_state, out |-> EmptyDeltaOut, err |-> None]
      a1 == ApplyStorageWrites(a0, deltas.storage_writes, 1)
      a2 == ApplyStateWrites(a1, deltas.state_writes, 1)
      a3 == ApplySelfDestructs(a2, deltas.self_destructed_accounts, 1)
  IN  a3

\* ---------------------------------------------------------------- trie state
\* calculate_trie_input_hashes
calculate_trie_input_hashes(t_inputs) ==
  [state_root |-> TrieHash(t_inputs.state),
   transactions_root |-> TrieHash(t_inputs.txn),
   receipts_root |-> TrieHash(t_inputs.receipt)]

\* TxnMetaState::txn_bytes: the raw bytes, empty when there are none
txn_bytes_of(meta) == IF IsSome(meta.txn_bytes) THEN Unwrap(meta.txn_bytes) ELSE "empty"

\* update_txn_and_receipt_tries that leaves the receipt trie alone
update_txn_and_receipt_tries_TxnOnly(trie_state, meta, txn_idx) ==
  LET txn_k == TxnKey(txn_idx) IN
  [trie_state EXCEPT
     !.txn = IF TrieInsertOk(@, txn_k) THEN TrieInsert(@, txn_k, txn_bytes_of(meta)) ELSE @]

update_txn_and_receipt_tries(trie_state, meta, txn_idx) ==
  LET txn_k == TxnKey(txn_idx) IN
  [trie_state EXCEPT
     !.txn = IF TrieInsertOk(@, txn_k) THEN TrieInsert(@, txn_k, txn_bytes_of(meta)) ELSE @,
     !.receipt = IF TrieInsertOk(@, txn_k)
                 THEN TrieInsert(@, txn_k, meta.receipt_node_bytes) ELSE @]

\* init_any_needed_empty_storage_tries that does not look for an existing trie
RECURSIVE init_any_needed_empty_storage_tries_Overwrite(_, _, _)
init_any_needed_empty_storage_tries_Overwrite(storage_tries, accounts_with_storage, no_accesses) ==
  IF accounts_with_storage = <<>> THEN storage_tries
  ELSE LET h_addr == Head(accounts_with_storage)
           trie == IF h_addr \in DOMAIN no_accesses
                   THEN HashNodeTrie(no_accesses[h_addr])
                   ELSE EmptyTrie
       IN  init_any_needed_empty_storage_tries_Overwrite(
             MapPut(storage_tries, h_addr, trie), Tail(accounts_with_storage),
             no_accesses)

\* init_any_needed_empty_storage_tries: the storage-trie map with a trie for
\* every account of accounts_with_storage (a sequence of hashed addresses).
\* The set_storage_slot call of line 450 names values that are not in scope
\* and is left out; the insertion of lines 452-457 is what is modelled.
RECURSIVE init_any_needed_empty_storage_tries(_, _, _)
init_any_needed_empty_storage_tries(storage_tries, accounts_with_storage, no_accesses) ==
  IF accounts_with_storage = <<>> THEN storage_tries
  ELSE LET h_addr == Head(accounts_with_storage)
           trie == IF h_addr \in DOMAIN no_accesses
                   THEN HashNodeTrie(no_accesses[h_addr])
                   ELSE EmptyTrie
           next == IF h_addr \notin DOMAIN storage_tries
                   THEN MapPut(storage_tries, h_addr, trie)
                   ELSE storage_tries
       IN  init_any_needed_empty_storage_tries(next, Tail(accounts_with_storage),
                                               no_accesses)

SeqRange(s) == {s[i] : i \in 1..Len(s)}
Firsts(s) == [i \in 1..Len(s) |-> s[i][1]]

\* ---------------------------------------------------------------- subset builder
create_trie_subset_wrapped(trie, accesses, trie_type) ==
  LET missing == SubsetMissing(trie, accesses) IN
  IF missing # {}
  THEN [err |-> Some(NewError(MissingKeysCreatingSubPartialTrie(
                       CHOOSE k \in missing : TRUE, trie_type))),
        trie |-> trie]
  ELSE [err |-> None, trie |-> TrieSubset(trie, accesses)]

create_minimal_state_partial_trie(state_trie, state_accesses, additional_paths) ==
  create_trie_subset_wrapped(state_trie, state_accesses \cup additional_paths, "state")

\* One storage trie per account of storage_accesses: [err, tries]
RECURSIVE create_minimal_storage_partial_tries(_, _, _, _)
create_minimal_storage_partial_tries(storage_tries, accesses, additional, done) ==
  IF accesses = <<>> THEN [err |-> None, tries |-> done]
  ELSE LET h == Head(accesses)[1]
           slots == Head(accesses)[2]
           extra == IF h \in DOMAIN additional THEN SeqRange(additional[h]) ELSE {}
       IN  IF h \notin DOMAIN storage_tries
           THEN [err |-> Some(WithHAddr(NewError(MissingAccountStorageTrie(h)), h)),
                 tries |-> done]
           ELSE LET r == create_trie_subset_wrapped(storage_tries[h], slots \cup extra,
                                                    "storage")
                IN  IF IsSome(r.err) THEN [err |-> r.err, tries |-> done]
                    ELSE create_minimal_storage_partial_tries(
                           storage_tries, Tail(accesses), additional,
                           MapPut(done, h, r.trie))

\* create_minimal_partial_tries_needed_by_txn: [err, tries]
create_minimal_partial_tries_needed_by_txn(tries_at_start, nodes_used, txn_idx, delta_out) ==
  LET st == create_minimal_state_partial_trie(
              tries_at_start.state, nodes_used.state_accesses,
              SeqRange(delta_out.additional_state_trie_paths_to_not_hash))
      tx == create_trie_subset_wrapped(tries_at_start.txn, {TxnKey(txn_idx)}, "transaction")
      rc == create_trie_subset_wrapped(tries_at_start.receipt, {TxnKey(txn_idx)}, "receipt")
      sg == create_minimal_storage_partial_tries(
              tries_at_start.storage, nodes_used.storage_accesses,
              delta_out.additional_storage_trie_paths_to_not_hash, EmptyMap)
      err == IF IsSome(st.err) THEN st.err
             ELSE IF IsSome(tx.err) THEN tx.err
             ELSE IF IsSome(rc.err) THEN rc.err
             ELSE sg.err
  IN  [err |-> err,
       tries |-> [state_trie |-> st.trie, transactions_trie |-> tx.trie,
                  receipts_trie |-> rc.trie, storage_tries |-> sg.tries]]

\* ---------------------------------------------------------------- dummy entries
create_fully_hashed_out_sub_partial_trie(trie) == TrieSubset(trie, {})

create_dummy_proof_trie_inputs(final_tries_at_end_of_block, state_trie) ==
  [state_trie |-> state_trie,
   transactions_trie |->
     create_fully_hashed_out_sub_partial_trie(final_tries_at_end_of_block.txn),
   receipts_trie |->
     create_fully_hashed_out_sub_partial_trie(final_tries_at_end_of_block.receipt),
   storage_tries |->
     [h \in DOMAIN final_tries_at_end_of_block.storage |->
        create_fully_hashed_out_sub_partial_trie(final_tries_at_end_of_block.storage[h])]]

\* The two assert_eq! of create_dummy_gen_input_common
DummySanityChecks(extra_data) ==
  /\ extra_data.txn_number_before = extra_data.txn_number_after
  /\ extra_data.gas_used_before = extra_data.gas_used_after

\* create_dummy_gen_input_common that leaves the checkpoint root at the
\* default hash
create_dummy_gen_input_common_DefaultRoot(other, extra_data, sub_tries) ==
  [signed_txn |-> None,
   tries |-> sub_tries,
   trie_roots_after |-> [state_root |-> TrieHash(sub_tries.state_trie),
                         transactions_root |-> TrieHash(sub_tries.transactions_trie),
                         receipts_root |-> TrieHash(sub_tries.receipts_trie)],
   checkpoint_state_trie_root |-> "default",
   txn_number_before |-> extra_data.txn_number_before,
   txn_number_after |-> extra_data.txn_number_after,
   gas_used_before |-> extra_data.gas_used_before,
   gas_used_after |-> extra_data.gas_used_after,
   withdrawals |-> <<>>]

\* txn_number_after is not a field of GenerationInputs: it records the value of
\* extra_data.txn_number_after the unit was assembled from.
create_dummy_gen_input_common(other, extra_data, sub_tries) ==
  [signed_txn |-> None,
   tries |-> sub_tries,
   trie_roots_after |-> [state_root |-> TrieHash(sub_tries.state_trie),
                         transactions_root |-> TrieHash(sub_tries.transactions_trie),
                         receipts_root |-> TrieHash(sub_tries.receipts_trie)],
   checkpoint_state_trie_root |-> extra_data.checkpoint_state_trie_root,
   txn_number_before |-> extra_data.txn_number_before,
   txn_number_after |-> extra_data.txn_number_after,
   gas_used_before |-> extra_data.gas_used_before,
   gas_used_after |-> extra_data.gas_used_after,
   withdrawals |-> <<>>]

create_dummy_gen_input(other, extra_data, final_tries) ==
  create_dummy_gen_input_common(other, extra_data,
    create_dummy_proof_trie_inputs(final_tries,
      create_fully_hashed_out_sub_partial_trie(final_tries.state)))

\* an empty block padded with a single dummy
create_dummy_txn_pair_OnlyOne(other, extra_data, final_tries) ==
  << create_dummy_gen_input(other, extra_data, final_tries) >>

create_dummy_txn_pair_for_empty_block(other, extra_data, final_tries) ==
  << create_dummy_gen_input(other, extra_data, final_tries),
     create_dummy_gen_input(other, extra_data, final_tries) >>

\* padding whose single dummy is built from the final tries
pad_gen_inputs_DummyFromFinalTries(gen_inputs, other, final_extra_data, initial_extra_data, initial_tries, final_tries) ==
  CASE Len(gen_inputs) = 0 ->
         [panic |-> ~DummySanityChecks(final_extra_data),
          ir |-> create_dummy_txn_pair_for_empty_block(other, final_extra_data,
                                                       initial_tries)]
    [] Len(gen_inputs) = 1 ->
         [panic |-> ~DummySanityChecks(initial_extra_data),
          ir |-> <<create_dummy_gen_input(other, initial_extra_data, final_tries)>>
                 \o gen_inputs]
    [] OTHER -> [panic |-> FALSE, ir |-> gen_inputs]

\* padding that still prepends a dummy to a list of two entries
pad_gen_inputs_PadsTwo(gen_inputs, other, final_extra_data, initial_extra_data, initial_tries, final_tries) ==
  CASE Len(gen_inputs) = 0 ->
         [panic |-> ~DummySanityChecks(final_extra_data),
          ir |-> create_dummy_txn_pair_for_empty_block(other, final_extra_data,
                                                       initial_tries)]
    [] Len(gen_inputs) \in {1, 2} ->
         [panic |-> ~DummySanityChecks(initial_extra_data),
          ir |-> <<create_dummy_gen_input(other, initial_extra_data, initial_tries)>>
                 \o gen_inputs]
    [] OTHER -> [panic |-> FALSE, ir |-> gen_inputs]

\* padding that leaves an empty list empty
pad_gen_inputs_NoPadWhenEmpty(gen_inputs, other, final_extra_data, initial_extra_data, initial_tries, final_tries) ==
  CASE Len(gen_inputs) = 1 ->
         [panic |-> ~DummySanityChecks(initial_extra_data),
          ir |-> <<create_dummy_gen_input(other, initial_extra_data, initial_tries)>>
                 \o gen_inputs]
    [] OTHER -> [panic |-> FALSE, ir |-> gen_inputs]

\* padding whose single dummy is built from the counters after the transaction
pad_gen_inputs_DummyFromFinalCounters(gen_inputs, other, final_extra_data, initial_extra_data, initial_tries, final_tries) ==
  CASE Len(gen_inputs) = 0 ->
         [panic |-> ~DummySanityChecks(final_extra_data),
          ir |-> create_dummy_txn_pair_for_empty_block(other, final_extra_data,
                                                       initial_tries)]
    [] Len(gen_inputs) = 1 ->
         [panic |-> ~DummySanityChecks(final_extra_data),
          ir |-> <<create_dummy_gen_input(other, final_extra_data, initial_tries)>>
                 \o gen_inputs]
    [] OTHER -> [panic |-> FALSE, ir |-> gen_inputs]

\* pad_gen_inputs_with_dummy_inputs_if_needed: [panic, ir]
pad_gen_inputs_with_dummy_inputs_if_needed(gen_inputs, other, final_extra_data, initial_extra_data, initial_tries, final_tries) ==
  CASE Len(gen_inputs) = 0 ->
         [panic |-> ~DummySanityChecks(final_extra_data),
          ir |-> create_dummy_txn_pair_for_empty_block(other, final_extra_data,
                                                       initial_tries)]
    [] Len(gen_inputs) = 1 ->
         [panic |-> ~DummySanityChecks(initial_extra_data),
          ir |-> <<create_dummy_gen_input(other, initial_extra_data, initial_tries)>>
                 \o gen_inputs]
    [] OTHER -> [panic |-> FALSE, ir |-> gen_inputs]

\* ---------------------------------------------------------------- one transaction
\* advance_after_counters that stores the gas of this transaction alone
advance_after_counters_PerTxnGas(extra_data, gas_used) ==
  [extra_data EXCEPT !.txn_number_after = @ + 1,
                     !.gas_used_after = gas_used]

\* For each non-dummy txn, txn_number_after and gas_used_after move first
advance_after_counters(extra_data, gas_used) ==
  [extra_data EXCEPT !.txn_number_after = @ + 1,
                     !.gas_used_after = @ + gas_used]

\* advance_before_counters that forgets the gas accumulator
advance_before_counters_NoGas(extra_data) ==
  [extra_data EXCEPT !.txn_number_before = @ + 1]

\* After the unit is assembled the remaining accumulators follow
advance_before_counters(extra_data) ==
  [extra_data EXCEPT !.txn_number_before = @ + 1,
                     !.gas_used_before = extra_data.gas_used_after]

\* process_txn_info that derives the subsets from the tries after mutation
process_txn_info_SubsetsAfterMutation(txn_idx, txn_info, curr_tries, extra_data, other) ==
  LET nodes == txn_info.nodes_used_by_txn
      seeded == [curr_tries EXCEPT !.storage =
                   init_any_needed_empty_storage_tries(
                     @, Firsts(nodes.storage_accesses),
                     nodes.state_accounts_with_no_accesses_but_storage_tries)]
      extra1 == advance_after_counters(extra_data, txn_info.meta.gas_used)
      inserted == update_txn_and_receipt_tries(seeded, txn_info.meta, txn_idx)
      delta == apply_deltas_to_trie_state(inserted, nodes)
      sub == create_minimal_partial_tries_needed_by_txn(
               [delta.ts EXCEPT !.storage = seeded.storage], nodes, txn_idx, delta.out)
      gen_inputs ==
        [signed_txn |-> txn_info.meta.txn_bytes,
         tries |-> sub.tries,
         trie_roots_after |-> calculate_trie_input_hashes(delta.ts),
         checkpoint_state_trie_root |-> extra1.checkpoint_state_trie_root,
         txn_number_before |-> extra1.txn_number_before,
         txn_number_after |-> extra1.txn_number_after,
         gas_used_before |-> extra1.gas_used_before,
         gas_used_after |-> extra1.gas_used_after,
         withdrawals |-> <<>>]
      extra2 == advance_before_counters(extra1)
  IN  IF IsSome(delta.err)
      THEN [err |-> delta.err, unit |-> None, tries |-> delta.ts, extra |-> extra1,
            start |-> seeded, out |-> delta.out]
      ELSE IF IsSome(sub.err)
      THEN [err |-> sub.err, unit |-> None, tries |-> delta.ts, extra |-> extra1,
            start |-> seeded, out |-> delta.out]
      ELSE [err |-> None, unit |-> Some(gen_inputs), tries |-> delta.ts,
            extra |-> extra2, start |-> seeded, out |-> delta.out]

\* process_txn_info: [err, unit, tries, extra, start, out]; tries and extra
\* are the live trie state and counters as the call leaves them, start is the
\* clone tries_at_start_of_txn, out is delta_out as far as it was filled
process_txn_info(txn_idx, txn_info, curr_tries, extra_data, other) ==
  LET nodes == txn_info.nodes_used_by_txn
      seeded == [curr_tries EXCEPT !.storage =
                   init_any_needed_empty_storage_tries(
                     @, Firsts(nodes.storage_accesses),
                     nodes.state_accounts_with_no_accesses_but_storage_tries)]
      extra1 == advance_after_counters(extra_data, txn_info.meta.gas_used)
      tries_at_start_of_txn == seeded
      inserted == update_txn_and_receipt_tries(seeded, txn_info.meta, txn_idx)
      delta == apply_deltas_to_trie_state(inserted, nodes)
      sub == create_minimal_partial_tries_needed_by_txn(
               tries_at_start_of_txn, nodes, txn_idx, delta.out)
      gen_inputs ==
        [signed_txn |-> txn_info.meta.txn_bytes,
         tries |-> sub.tries,
         trie_roots_after |-> calculate_trie_input_hashes(delta.ts),
         checkpoint_state_trie_root |-> extra1.checkpoint_state_trie_root,
         txn_number_before |-> extra1.txn_number_before,
         txn_number_after |-> extra1.txn_number_after,
         gas_used_before |-> extra1.gas_used_before,
         gas_used_after |-> extra1.gas_used_after,
         withdrawals |-> <<>>]
      extra2 == advance_before_counters(extra1)
  IN  IF IsSome(delta.err)
      THEN [err |-> delta.err, unit |-> None, tries |-> delta.ts, extra |-> extra1,
            start |-> seeded, out |-> delta.out]
      ELSE IF IsSome(sub.err)
      THEN [err |-> sub.err, unit |-> None, tries |-> delta.ts, extra |-> extra1,
            start |-> seeded, out |-> delta.out]
      ELSE [err |-> None, unit |-> Some(gen_inputs), tries |-> delta.ts,
            extra |-> extra2, start |-> seeded, out |-> delta.out]

\* ---------------------------------------------------------------- withdrawals
\* update_trie_state_from_withdrawals that sets the balance to the amount
RECURSIVE update_trie_state_from_withdrawals_Overwrite(_, _)
update_trie_state_from_withdrawals_Overwrite(wds, state) ==
  IF wds = <<>> THEN [err |-> None, state |-> state]
  ELSE LET addr == Head(wds)[1]
           h_addr == hash(addr)
           amt == Head(wds)[2]
           acc_bytes == TrieGet(state, h_addr)
       IN  IF ~IsSome(acc_bytes)
           THEN [err |-> Some(WithHAddr(WithAddr(
                          NewError(MissingWithdrawalAccount(addr, h_addr, amt)),
                          addr), h_addr)),
                 state |-> state]
           ELSE LET acc_data == [Unwrap(acc_bytes) EXCEPT !.balance = amt]
                IN  update_trie_state_from_withdrawals_Overwrite(
                      Tail(wds),
                      IF TrieInsertOk(state, h_addr)
                      THEN TrieInsert(state, h_addr, acc_data) ELSE state)

\* update_trie_state_from_withdrawals over (addr, h_addr, amt): [err, state]
RECURSIVE update_trie_state_from_withdrawals(_, _)
update_trie_state_from_withdrawals(wds, state) ==
  IF wds = <<>> THEN [err |-> None, state |-> state]
  ELSE LET addr == Head(wds)[1]
           h_addr == hash(addr)
           amt == Head(wds)[2]
           acc_bytes == TrieGet(state, h_addr)
       IN  IF ~IsSome(acc_bytes)
           THEN [err |-> Some(WithHAddr(WithAddr(
                          NewError(MissingWithdrawalAccount(addr, h_addr, amt)),
                          addr), h_addr)),
                 state |-> state]
           ELSE LET acc_data == [Unwrap(acc_bytes) EXCEPT !.balance = @ + amt]
                IN  update_trie_state_from_withdrawals(
                      Tail(wds),
                      IF TrieInsertOk(state, h_addr)
                      THEN TrieInsert(state, h_addr, acc_data) ELSE state)

\* add_withdrawals_to_txns that folds the withdrawals into the first unit
add_withdrawals_to_txns_FirstUnit(txn_ir, final_trie_state, wds) ==
  LET n == 1
      last_inputs == txn_ir[n]
      withdrawal_addrs == {hash(wds[i][1]) : i \in 1..Len(wds)}
      widened == IF last_inputs.signed_txn = None
                 THEN create_minimal_state_partial_trie(
                        last_inputs.tries.state_trie, withdrawal_addrs, {})
                 ELSE [err |-> None, trie |-> last_inputs.tries.state_trie]
      upd == update_trie_state_from_withdrawals(wds, final_trie_state.state)
      new_last == [last_inputs EXCEPT
                     !.tries.state_trie = widened.trie,
                     !.withdrawals = wds,
                     !.trie_roots_after.state_root = TrieHash(upd.state)]
  IN  IF IsSome(widened.err)
      THEN [err |-> widened.err, ir |-> txn_ir, tries |-> final_trie_state]
      ELSE IF IsSome(upd.err)
      THEN [err |-> upd.err,
            ir |-> [txn_ir EXCEPT ![n].tries.state_trie = widened.trie],
            tries |-> [final_trie_state EXCEPT !.state = upd.state]]
      ELSE [err |-> None,
            ir |-> [txn_ir EXCEPT ![n] = new_last],
            tries |-> [final_trie_state EXCEPT !.state = upd.state]]

\* add_withdrawals_to_txns on a non-empty list: [err, ir, tries]
add_withdrawals_to_txns(txn_ir, final_trie_state, wds) ==
  LET n == Len(txn_ir)
      last_inputs == txn_ir[n]
      withdrawal_addrs == {hash(wds[i][1]) : i \in 1..Len(wds)}
      widened == IF last_inputs.signed_txn = None
                 THEN create_minimal_state_partial_trie(
                        last_inputs.tries.state_trie, withdrawal_addrs, {})
                 ELSE [err |-> None, trie |-> last_inputs.tries.state_trie]
      upd == update_trie_state_from_withdrawals(wds, final_trie_state.state)
      new_last == [last_inputs EXCEPT
                     !.tries.state_trie = widened.trie,
                     !.withdrawals = wds,
                     !.trie_roots_after.state_root = TrieHash(upd.state)]
  IN  IF IsSome(widened.err)
      THEN [err |-> widened.err, ir |-> txn_ir, tries |-> final_trie_state]
      ELSE IF IsSome(upd.err)
      THEN [err |-> upd.err,
            ir |-> [txn_ir EXCEPT ![n].tries.state_trie = widened.trie],
            tries |-> [final_trie_state EXCEPT !.state = upd.state]]
      ELSE [err |-> None,
            ir |-> [txn_ir EXCEPT ![n] = new_last],
            tries |-> [final_trie_state EXCEPT !.state = upd.state]]

\* ---------------------------------------------------------------- inputs
NoWrites == [balance |-> None, nonce |-> None, storage_trie_change |-> FALSE,
             code_hash |-> None]

TxnInfo(gas, bytes, storage_accesses, state_accesses, storage_writes, state_writes, self_destructed, no_accesses) ==
  [meta |-> [gas_used |-> gas, txn_bytes |-> bytes, receipt_node_bytes |-> "receipt"],
   nodes_used_by_txn |->
     [storage_accesses |-> storage_accesses,
      state_accesses |-> state_accesses,
      storage_writes |-> storage_writes,
      state_writes |-> state_writes,
      self_destructed_accounts |-> self_destructed,
      state_accounts_with_no_accesses_but_storage_tries |-> no_accesses]]

\* a value transfer that creates or tops up account B
TransferTxns ==
  {TxnInfo(g, Some("raw"), <<>>, {"B"}, <<>>,
           << <<"B", [NoWrites EXCEPT !.balance = Some(2), !.nonce = Some(1)]>> >>,
           <<>>, EmptyMap) : g \in 1..MaxGas}

\* a store of v to slot s of account h, with the storage root refreshed
SStore(h, s, v) ==
  TxnInfo(1, Some("raw"), << <<h, {hash(s)}>> >>, {h}, << <<h, << <<s, v>> >> >> >>,
          << <<h, [NoWrites EXCEPT !.storage_trie_change = TRUE]>> >>,
          <<>>, EmptyMap)
SStoreTxns ==
  {SStore("A", "s1", ZERO_STORAGE_SLOT_VAL_RLPED),
   SStore("A", "s2", ZERO_STORAGE_SLOT_VAL_RLPED),
   SStore("A", "s1", 2),
   SStore("B", "s1", 1)}

\* a store to an account that is not among the storage accesses
SStoreNoAccessTxns ==
  {TxnInfo(1, Some("raw"), <<>>, {h}, << <<h, << <<"s1", 2>> >> >> >>, <<>>, <<>>,
           EmptyMap) : h \in HAddrs}

\* a self-destruct of account h, with or without a storage access to h
SelfDestruct(h, acc) ==
  TxnInfo(1, Some("raw"), IF acc THEN << <<h, {}>> >> ELSE <<>>, {h}, <<>>, <<>>,
          <<h>>, EmptyMap)
SelfDestructTxns ==
  {SelfDestruct("A", FALSE), SelfDestruct("A", TRUE), SelfDestruct("B", FALSE)}

\* a store to an account whose storage trie upstream knows only by its root
SeededRoot == [k \in {"S1"} |-> 2]
HashOnlyTxns ==
  {TxnInfo(1, Some("raw"), << <<h, {}>> >>, {h}, << <<h, << <<"s1", 1>> >> >> >>, <<>>,
           <<>>, [k \in {h} |-> SeededRoot]) : h \in HAddrs}

\* a transaction record without raw bytes that replaces the code of account A
NoBytesTxns ==
  {TxnInfo(0, None, <<>>, {"A"}, <<>>,
           << <<"A", [NoWrites EXCEPT !.code_hash = Some("code2")]>> >>,
           <<>>, EmptyMap)}

TxnInfos ==
  TransferTxns \cup SStoreTxns \cup SStoreNoAccessTxns \cup SelfDestructTxns
    \cup HashOnlyTxns \cup NoBytesTxns

\* withdrawal lists: (address, amount) pairs
WithdrawalPairs == {<<"a", 1>>, <<"b", 2>>}
RECURSIVE SeqsUpTo(_, _)
SeqsUpTo(S, n) ==
  IF n = 0 THEN {<<>>}
  ELSE LET shorter == SeqsUpTo(S, n - 1)
       IN  shorter \cup {Append(q, x) : q \in shorter, x \in S}
WithdrawalLists == SeqsUpTo(WithdrawalPairs, MaxWithdrawals)

\* block metadata: block 7 of chain 1
OtherDatas ==
  {[block_number |-> 7, block_chain_id |-> 1, checkpoint_state_trie_root |-> "cp7"]}

\* D::get_trie_pre_image: account A with two storage slots, no account B
PreImageStorageA == [k \in {"S1", "S2"} |-> IF k = "S1" THEN 1 ELSE 2]
PreImage ==
  [state |-> FullTrie([h \in {"A"} |->
                [balance |-> 1, nonce |-> 1, storage_root |-> PreImageStorageA,
                 code_hash |-> "code1"]]),
   txn |-> EmptyTrie,
   receipt |-> EmptyTrie,
   storage |-> [h \in {"A"} |-> FullTrie(PreImageStorageA)]]

\* ---------------------------------------------------------------- witness traces
MaxTraceOps == 3

TraceLists ==
  {"arithmetic_ops", "byte_packing_ops", "cpu", "logic_ops", "memory_ops",
   "keccak_inputs", "keccak_sponge_ops"}

\* Traces::new
Traces_new == [l \in TraceLists |-> <<>>]

\* Vec::truncate: keeps the first n elements, no effect when n >= len
truncate(v, n) == IF n < Len(v) THEN SubSeq(v, 1, n) ELSE v

\* Traces::checkpoint
checkpoint(t) ==
  [arithmetic_len |-> Len(t.arithmetic_ops),
   byte_packing_len |-> Len(t.byte_packing_ops),
   cpu_len |-> Len(t.cpu),
   keccak_len |-> Len(t.keccak_inputs),
   keccak_sponge_len |-> Len(t.keccak_sponge_ops),
   logic_len |-> Len(t.logic_ops),
   memory_len |-> Len(t.memory_ops)]

\* rollback that truncates the keccak sponge list to the keccak length
rollback_SpongeByKeccakLen(t, cp) ==
  [arithmetic_ops |-> truncate(t.arithmetic_ops, cp.arithmetic_len),
   byte_packing_ops |-> truncate(t.byte_packing_ops, cp.byte_packing_len),
   cpu |-> truncate(t.cpu, cp.cpu_len),
   keccak_inputs |-> truncate(t.keccak_inputs, cp.keccak_len),
   keccak_sponge_ops |-> truncate(t.keccak_sponge_ops, cp.keccak_len),
   logic_ops |-> truncate(t.logic_ops, cp.logic_len),
   memory_ops |-> truncate(t.memory_ops, cp.memory_len)]

\* Traces::rollback
rollback(t, cp) ==
  [arithmetic_ops |-> truncate(t.arithmetic_ops, cp.arithmetic_len),
   byte_packing_ops |-> truncate(t.byte_packing_ops, cp.byte_packing_len),
   cpu |-> truncate(t.cpu, cp.cpu_len),
   keccak_inputs |-> truncate(t.keccak_inputs, cp.keccak_len),
   keccak_sponge_ops |-> truncate(t.keccak_sponge_ops, cp.keccak_sponge_len),
   logic_ops |-> truncate(t.logic_ops, cp.logic_len),
   memory_ops |-> truncate(t.memory_ops, cp.memory_len)]

\* ---------------------------------------------------------------- state
VARIABLES
  pc,                         \* "txns", "withdrawals", "done"
  other_data,                 \* block metadata and checkpoint root
  txns,                       \* the transactions handed to process_txn_info so far
  curr_block_tries,
  tries_at_start_of_txn,      \* the clone taken by the last process_txn_info
  delta_out,                  \* the delta output of the last process_txn_info
  initial_tries_for_dummies,
  extra_data,
  ir,                         \* the local IR vector of process_txns
  produced,                   \* the units process_txn_info returned, in order
  withdrawals,
  ret,                        \* what process_txns returned: [tag, ir, err]
  rendered,                   \* the lines Display wrote for the error in ret
  traces,                     \* a Traces value: the seven operation lists
  saved,                      \* the TraceCheckpoint the caller holds, if any
  traces_at_checkpoint,       \* the content of traces when saved was taken
  appended                    \* how many operations were appended so far

vars == <<pc, other_data, txns, curr_block_tries, tries_at_start_of_txn, delta_out,
          initial_tries_for_dummies, extra_data, ir, produced, withdrawals, ret,
          rendered, traces, saved, traces_at_checkpoint, appended>>

\* The variables of process_txns and of the error it returns
block_vars ==
  <<pc, other_data, txns, curr_block_tries, tries_at_start_of_txn, delta_out,
    initial_tries_for_dummies, extra_data, ir, produced, withdrawals, ret, rendered>>
\* The variables of the witness traces
trace_vars == <<traces, saved, traces_at_checkpoint, appended>>

\* Traces::new(), no checkpoint taken yet
InitTraces ==
  /\ traces = Traces_new
  /\ saved = None
  /\ traces_at_checkpoint = Traces_new
  /\ appended = 0

InitialExtraData(other) ==
  [checkpoint_state_trie_root |-> other.checkpoint_state_trie_root,
   txn_number_before |-> 0, txn_number_after |-> 0,
   gas_used_before |-> 0, gas_used_after |-> 0]

\* A copy of the initial extra_data possibly needed during padding
extra_data_for_dummies == InitialExtraData(other_data)

NotReturned == [tag |-> "None", ir |-> <<>>, err |-> None]
RetOk(v) == [tag |-> "Ok", ir |-> v, err |-> None]
RetErr(e) == [tag |-> "Err", ir |-> <<>>, err |-> Some(e)]
RetPanic == [tag |-> "Panic", ir |-> <<>>, err |-> None]

Init ==
  /\ pc = "txns"
  /\ other_data \in OtherDatas
  /\ txns = <<>>
  /\ curr_block_tries = PreImage
  /\ tries_at_start_of_txn = PreImage
  /\ delta_out = EmptyDeltaOut
  /\ initial_tries_for_dummies = PreImage
  /\ extra_data = InitialExtraData(other_data)
  /\ ir = <<>>
  /\ produced = <<>>
  /\ withdrawals = <<>>
  /\ ret = NotReturned
  /\ rendered = <<>>
  /\ InitTraces

\* StampTxnError that attaches the transaction index only
StampTxnError_NoBlockContext(e, txn_idx, other) == WithTxnIdx(e, txn_idx)

\* The error of a failed transaction as process_txns returns it
StampTxnError(e, txn_idx, other) ==
  WithBlockChainId(WithBlockNum(WithTxnIdx(e, txn_idx), other.block_number),
                   other.block_chain_id)

\* ProcessTxnInfo that goes on to the next transaction after an error
ProcessTxnInfo_ContinuesAfterError(txn_info) ==
  LET txn_idx == Len(txns)
      r == process_txn_info(txn_idx, txn_info, curr_block_tries, extra_data, other_data)
  IN  /\ txns' = Append(txns, txn_info)
      /\ curr_block_tries' = r.tries
      /\ tries_at_start_of_txn' = r.start
      /\ delta_out' = r.out
      /\ extra_data' = r.extra
      /\ IF IsSome(r.err)
         THEN /\ ret' = RetErr(StampTxnError(Unwrap(r.err), txn_idx, other_data))
              /\ UNCHANGED <<pc, ir, produced>>
         ELSE /\ ir' = Append(ir, Unwrap(r.unit))
              /\ produced' = Append(produced, Unwrap(r.unit))
              /\ UNCHANGED <<pc, ret>>
      /\ UNCHANGED <<other_data, initial_tries_for_dummies, withdrawals, rendered, trace_vars>>

\* The body of the map/collect loop of process_txns for one transaction
ProcessTxnInfo(txn_info) ==
  LET txn_idx == Len(txns)
      r == process_txn_info(txn_idx, txn_info, curr_block_tries, extra_data, other_data)
  IN  /\ txns' = Append(txns, txn_info)
      /\ curr_block_tries' = r.tries
      /\ tries_at_start_of_txn' = r.start
      /\ delta_out' = r.out
      /\ extra_data' = r.extra
      /\ IF IsSome(r.err)
         THEN /\ pc' = "done"
              /\ ret' = RetErr(StampTxnError(Unwrap(r.err), txn_idx, other_data))
              /\ UNCHANGED <<ir, produced>>
         ELSE /\ ir' = Append(ir, Unwrap(r.unit))
              /\ produced' = Append(produced, Unwrap(r.unit))
              /\ UNCHANGED <<pc, ret>>
      /\ UNCHANGED <<other_data, initial_tries_for_dummies, withdrawals, rendered, trace_vars>>

\* One iteration of the map/collect loop of process_txns
ProcessTxn ==
  /\ pc = "txns"
  /\ Len(txns) < MaxTxns
  /\ \E txn_info \in TxnInfos : ProcessTxnInfo(txn_info)

\* The transaction list is exhausted: pad the IR list
Pad ==
  /\ pc = "txns"
  /\ LET p == pad_gen_inputs_with_dummy_inputs_if_needed(
                ir, other_data, extra_data, extra_data_for_dummies,
                initial_tries_for_dummies, curr_block_tries)
     IN  IF p.panic
         THEN /\ pc' = "done"
              /\ ret' = RetPanic
              /\ UNCHANGED ir
         ELSE /\ pc' = "withdrawals"
              /\ ir' = p.ir
              /\ UNCHANGED ret
  /\ UNCHANGED <<other_data, txns, curr_block_tries, tries_at_start_of_txn,
                 delta_out, initial_tries_for_dummies, extra_data, produced,
                 withdrawals, rendered, trace_vars>>

\* Withdrawals without the is_empty test: the step runs on every list
Withdrawals_NoEmptyCheck ==
  /\ pc = "withdrawals"
  /\ \E wds \in WithdrawalLists :
       /\ withdrawals' = wds
       /\ IF ir = <<>>
          THEN /\ ret' = RetPanic
               /\ UNCHANGED <<ir, curr_block_tries>>
          ELSE LET w == add_withdrawals_to_txns(ir, curr_block_tries, wds)
               IN  /\ ir' = w.ir
                   /\ curr_block_tries' = w.tries
                   /\ ret' = IF IsSome(w.err) THEN RetErr(Unwrap(w.err))
                             ELSE RetOk(w.ir)
  /\ pc' = "done"
  /\ UNCHANGED <<other_data, txns, tries_at_start_of_txn, delta_out,
                 initial_tries_for_dummies, extra_data, produced, rendered, trace_vars>>

\* The withdrawal step and the return of process_txns
Withdrawals ==
  /\ pc = "withdrawals"
  /\ \E wds \in WithdrawalLists :
       /\ withdrawals' = wds
       /\ IF wds = <<>>
          THEN /\ ret' = RetOk(ir)
               /\ UNCHANGED <<ir, curr_block_tries>>
          ELSE IF ir = <<>>
          THEN /\ ret' = RetPanic
               /\ UNCHANGED <<ir, curr_block_tries>>
          ELSE LET w == add_withdrawals_to_txns(ir, curr_block_tries, wds)
               IN  /\ ir' = w.ir
                   /\ curr_block_tries' = w.tries
                   /\ ret' = IF IsSome(w.err) THEN RetErr(Unwrap(w.err))
                             ELSE RetOk(w.ir)
  /\ pc' = "done"
  /\ UNCHANGED <<other_data, txns, tries_at_start_of_txn, delta_out,
                 initial_tries_for_dummies, extra_data, produced, rendered, trace_vars>>

Next == ProcessTxn \/ Pad \/ Withdrawals

Spec == Init /\ [][Next]_vars

\* ---------------------------------------------------------------- delta-heavy blocks
\* Blocks of transactions whose deltas have several steps, some of which fail
\* after earlier steps were applied
MaxDeltaTxns == 2

StorageRootChange == [NoWrites EXCEPT !.storage_trie_change = TRUE]

\* two writes to account A in one transaction: s1 := 2, s2 := 0
TwoSlotStore ==
  TxnInfo(1, Some("raw"), << <<"A", {"S1", "S2"}>> >>, {"A"},
          << <<"A", << <<"s1", 2>>, <<"s2", ZERO_STORAGE_SLOT_VAL_RLPED>> >> >> >>,
          << <<"A", StorageRootChange>> >>, <<>>, EmptyMap)

\* a balance write to A, then a storage-root refresh of B without storage access
RootRefreshOfB ==
  TxnInfo(1, Some("raw"), <<>>, {"A", "B"}, <<>>,
          << <<"A", [NoWrites EXCEPT !.balance = Some(5)]>>,
             <<"B", [StorageRootChange EXCEPT !.balance = Some(3)]>> >>,
          <<>>, EmptyMap)

\* a store to A, then a store to B, with a storage access to A only
StoreAThenB ==
  TxnInfo(1, Some("raw"), << <<"A", {"S1"}>> >>, {"A", "B"},
          << <<"A", << <<"s1", 2>> >> >>, <<"B", << <<"s1", 1>> >> >> >>,
          <<>>, <<>>, EmptyMap)

\* a balance write to A, then the self-destruct of B
WriteAThenDestroyB ==
  TxnInfo(1, Some("raw"), <<>>, {"A", "B"}, <<>>,
          << <<"A", [NoWrites EXCEPT !.balance = Some(5)]>> >>, <<"B">>, EmptyMap)

\* account A listed twice among the self-destructed accounts
DestroyATwice ==
  TxnInfo(1, Some("raw"), <<>>, {"A"}, <<>>, <<>>, <<"A", "A">>, EmptyMap)

DeltaTxnInfos ==
  {t \in TransferTxns : t.meta.gas_used = 1}
    \cup {SStore("A", "s1", ZERO_STORAGE_SLOT_VAL_RLPED),
          SStore("A", "s2", ZERO_STORAGE_SLOT_VAL_RLPED),
          SStore("B", "s1", 1),
          SelfDestruct("A", FALSE),
          TwoSlotStore, RootRefreshOfB, StoreAThenB, WriteAThenDestroyB,
          DestroyATwice}

\* One iteration of the loop of process_txns on a delta-heavy block
ProcessDeltaTxn ==
  /\ pc = "txns"
  /\ Len(txns) < MaxDeltaTxns
  /\ \E txn_info \in DeltaTxnInfos : ProcessTxnInfo(txn_info)

NextDelta == ProcessDeltaTxn \/ Pad \/ Withdrawals

SpecDelta == Init /\ [][NextDelta]_vars

\* ---------------------------------------------------------------- rendering
\* Errors with every combination of populated context fields
DisplayReasons ==
  {MissingAccountStorageTrie("A"), TrieOpError("S1"),
   MissingWithdrawalAccount("a", "A", 1)}
OptionOf(v) == {None, Some(v)}
DisplayErrors ==
  [reason : DisplayReasons, block_num : OptionOf(7), block_chain_id : OptionOf(1),
   txn_idx : OptionOf(0), addr : OptionOf("a"), h_addr : OptionOf("A"),
   slot : OptionOf("S1"), slot_value : OptionOf(2)]

\* A caller holds an error of process_txns and is about to format it
InitDisplay ==
  /\ pc = "display"
  /\ other_data \in OtherDatas
  /\ txns = <<>>
  /\ curr_block_tries = PreImage
  /\ tries_at_start_of_txn = PreImage
  /\ delta_out = EmptyDeltaOut
  /\ initial_tries_for_dummies = PreImage
  /\ extra_data = InitialExtraData(other_data)
  /\ ir = <<>>
  /\ produced = <<>>
  /\ withdrawals = <<>>
  /\ ret \in {RetErr(e) : e \in DisplayErrors}
  /\ rendered = <<>>
  /\ InitTraces

\* The error is formatted with {}
Render ==
  /\ pc = "display"
  /\ rendered' = Display(Unwrap(ret.err))
  /\ pc' = "rendered"
  /\ UNCHANGED <<other_data, txns, curr_block_tries, tries_at_start_of_txn,
                 delta_out, initial_tries_for_dummies, extra_data, ir, produced,
                 withdrawals, ret, trace_vars>>

NextDisplay == Render

SpecDisplay == InitDisplay /\ [][NextDisplay]_vars

\* ---------------------------------------------------------------- error builders
\* An error is created and its builder methods are called in any order; pc is
\* "new" before the creation, "built" after it, and then the name of the field
\* whose builder was called last.
BuilderPcs ==
  {"built", "block_num", "block_chain_id", "txn_idx", "addr", "h_addr", "slot",
   "slot_value"}

InitBuild ==
  /\ pc = "new"
  /\ other_data \in OtherDatas
  /\ txns = <<>>
  /\ curr_block_tries = PreImage
  /\ tries_at_start_of_txn = PreImage
  /\ delta_out = EmptyDeltaOut
  /\ initial_tries_for_dummies = PreImage
  /\ extra_data = InitialExtraData(other_data)
  /\ ir = <<>>
  /\ produced = <<>>
  /\ withdrawals = <<>>
  /\ ret = NotReturned
  /\ rendered = <<>>
  /\ InitTraces

\* The frame of every step that only touches the error
ErrorOnly ==
  UNCHANGED <<other_data, txns, curr_block_tries, tries_at_start_of_txn, delta_out,
              initial_tries_for_dummies, extra_data, ir, produced, withdrawals,
              rendered, trace_vars>>

\* TraceParsingError::new / TraceDecodingError::new
New ==
  /\ pc = "new"
  /\ \E reason \in DisplayReasons : ret' = RetErr(NewError(reason))
  /\ pc' = "built"
  /\ ErrorOnly

block_num ==
  /\ pc \in BuilderPcs
  /\ \E n \in {7, 8} : ret' = RetErr(WithBlockNum(Unwrap(ret.err), n))
  /\ pc' = "block_num"
  /\ ErrorOnly

block_chain_id ==
  /\ pc \in BuilderPcs
  /\ ret' = RetErr(WithBlockChainId(Unwrap(ret.err), 1))
  /\ pc' = "block_chain_id"
  /\ ErrorOnly

txn_idx ==
  /\ pc \in BuilderPcs
  /\ \E i \in {0, 1} : ret' = RetErr(WithTxnIdx(Unwrap(ret.err), i))
  /\ pc' = "txn_idx"
  /\ ErrorOnly

addr ==
  /\ pc \in BuilderPcs
  /\ ret' = RetErr(WithAddr(Unwrap(ret.err), "a"))
  /\ pc' = "addr"
  /\ ErrorOnly

h_addr ==
  /\ pc \in BuilderPcs
  /\ \E h \in HAddrs : ret' = RetErr(WithHAddr(Unwrap(ret.err), h))
  /\ pc' = "h_addr"
  /\ ErrorOnly

slot ==
  /\ pc \in BuilderPcs
  /\ ret' = RetErr(WithSlot(Unwrap(ret.err), "S1"))
  /\ pc' = "slot"
  /\ ErrorOnly

slot_value ==
  /\ pc \in BuilderPcs
  /\ ret' = RetErr(WithSlotValue(Unwrap(ret.err), 2))
  /\ pc' = "slot_value"
  /\ ErrorOnly

NextBuild ==
  New \/ block_num \/ block_chain_id \/ txn_idx \/ addr \/ h_addr \/ slot \/ slot_value

SpecBuild == InitBuild /\ [][NextBuild]_vars

\* ---------------------------------------------------------------- trace recording
\* A caller appends operations to the lists of a Traces value, takes
\* checkpoints and rolls back to the checkpoint it holds.  The operation
\* appended is numbered, so that no two appended operations are equal.
Push ==
  /\ appended < MaxTraceOps
  /\ \E l \in TraceLists : traces' = [traces EXCEPT ![l] = Append(@, appended + 1)]
  /\ appended' = appended + 1
  /\ UNCHANGED <<saved, traces_at_checkpoint, block_vars>>

Checkpoint ==
  /\ saved' = Some(checkpoint(traces))
  /\ traces_at_checkpoint' = traces
  /\ UNCHANGED <<traces, appended, block_vars>>

Rollback ==
  /\ IsSome(saved)
  /\ traces' = rollback(traces, Unwrap(saved))
  /\ UNCHANGED <<saved, traces_at_checkpoint, appended, block_vars>>

NextTraces == Push \/ Checkpoint \/ Rollback

SpecTraces == Init /\ [][NextTraces]_vars

\* ================================================================ claims
Returned == pc = "done"
ReturnedOk == pc = "done" /\ ret.tag = "Ok"
\* every transaction handed to process_txn_info produced a unit
AllTxnsSucceeded == Len(produced) = Len(txns)

IsDummyWithInitialCounters(u) ==
  /\ u.signed_txn = None
  /\ u.txn_number_before = 0 /\ u.txn_number_after = 0
  /\ u.gas_used_before = 0 /\ u.gas_used_after = 0

EmptyBlockPair(seq) ==
  /\ Len(seq) = 2
  /\ \A i \in 1..2 :
       /\ seq[i].signed_txn = None
       /\ seq[i].txn_number_before = seq[i].txn_number_after
       /\ seq[i].gas_used_before = seq[i].gas_used_after
  /\ seq[1].txn_number_before = seq[2].txn_number_before
  /\ seq[1].gas_used_before = seq[2].gas_used_before

SameUnitUpToWithdrawals(u, p) ==
  /\ u.signed_txn = p.signed_txn
  /\ u.txn_number_before = p.txn_number_before
  /\ u.txn_number_after = p.txn_number_after
  /\ u.gas_used_before = p.gas_used_before
  /\ u.gas_used_after = p.gas_used_after
  /\ u.checkpoint_state_trie_root = p.checkpoint_state_trie_root
  /\ u.tries.transactions_trie = p.tries.transactions_trie
  /\ u.tries.receipts_trie = p.tries.receipts_trie
  /\ u.tries.storage_tries = p.tries.storage_tries
  /\ u.tries.state_trie.m = p.tries.state_trie.m
  /\ u.trie_roots_after.transactions_root = p.trie_roots_after.transactions_root
  /\ u.trie_roots_after.receipts_root = p.trie_roots_after.receipts_root

\* C2: for every block with exactly one transaction that processes
\* successfully, the returned sequence has exactly two entries: entry 0 is a
\* dummy whose roots are the hashes of the pre-block tries and whose counters
\* are initial, entry 1 is the unit produced for the transaction.
C2_SingleTxnBlock ==
  (ReturnedOk /\ Len(txns) = 1) =>
     /\ Len(ret.ir) = 2
     /\ IsDummyWithInitialCounters(ret.ir[1])
     /\ ret.ir[1].trie_roots_after =
          calculate_trie_input_hashes(initial_tries_for_dummies)
     /\ ret.ir[1].withdrawals = <<>>
     /\ SameUnitUpToWithdrawals(ret.ir[2], produced[1])
     /\ withdrawals = <<>> => ret.ir[2] = produced[1]
     /\ ret.ir[2].signed_txn = txns[1].meta.txn_bytes
     /\ ret.ir[2].txn_number_before = 0

C2_Witness ==
  /\ ReturnedOk /\ Len(txns) = 1 /\ Len(ret.ir) = 2
  /\ ret.ir[1].signed_txn = None /\ ret.ir[2].signed_txn # None
  /\ ret.ir[1].trie_roots_after # ret.ir[2].trie_roots_after

\* C3: for every block with n >= 2 transactions that all process
\* successfully no dummy is added: the returned sequence has exactly n entries
\* and entry i is the unit produced for transaction i, in index order.
C3_NoPaddingFromTwoTxns ==
  (ReturnedOk /\ Len(txns) >= 2) =>
     /\ Len(ret.ir) = Len(txns)
     /\ \A i \in 1..Len(ret.ir) :
          /\ SameUnitUpToWithdrawals(ret.ir[i], produced[i])
          /\ (i < Len(ret.ir) \/ withdrawals = <<>>) => ret.ir[i] = produced[i]
          /\ ret.ir[i].signed_txn = txns[i].meta.txn_bytes
          /\ ret.ir[i].txn_number_before = i - 1

C3_Witness ==
  /\ ReturnedOk /\ Len(txns) = MaxTxns /\ Len(ret.ir) = MaxTxns
  /\ \A i \in 1..Len(ret.ir) : ret.ir[i].signed_txn # None

\* C4: in every returned IR sequence, padded or not, consecutive units chain
\* their counters: the transaction number after unit i is txn_number_before of
\* unit i+1, and gas_used_after of unit i is gas_used_before of unit i+1.
C4_CountersChain ==
  ReturnedOk =>
     \A i \in 1..(Len(ret.ir) - 1) :
        /\ ret.ir[i].txn_number_after = ret.ir[i + 1].txn_number_before
        /\ ret.ir[i].gas_used_after = ret.ir[i + 1].gas_used_before

C4_Witness ==
  /\ ReturnedOk /\ Len(ret.ir) = 3
  /\ ret.ir[2].gas_used_after = 1 + MaxGas
  /\ ret.ir[3].gas_used_before = 1 + MaxGas
  /\ ret.ir[3].txn_number_before = 2

C6_StateContinuity ==
  ReturnedOk =>
     \A k \in 2..Len(ret.ir) :
        /\ TrieHash(ret.ir[k].tries.state_trie) = ret.ir[k - 1].trie_roots_after.state_root
        /\ TrieHash(ret.ir[k].tries.transactions_trie) =
             ret.ir[k - 1].trie_roots_after.transactions_root
        /\ TrieHash(ret.ir[k].tries.receipts_trie) =
             ret.ir[k - 1].trie_roots_after.receipts_root

C6_Witness ==
  /\ ReturnedOk /\ Len(ret.ir) = 3
  /\ ret.ir[1].trie_roots_after.state_root # ret.ir[2].trie_roots_after.state_root
  /\ ret.ir[2].trie_roots_after.state_root # ret.ir[3].trie_roots_after.state_root
  /\ TrieHash(ret.ir[3].tries.state_trie) = ret.ir[2].trie_roots_after.state_root

\* C7: if the processing of any transaction of the block fails, process_txns
\* returns an error and no IR unit at all, and the error carries the block
\* number and the chain id of the block.
C7_TxnFailureAbortsBlock ==
  ~AllTxnsSucceeded =>
     /\ pc = "done"
     /\ ret.tag = "Err"
     /\ ret.ir = <<>>
     /\ Unwrap(ret.err).block_num = Some(other_data.block_number)
     /\ Unwrap(ret.err).block_chain_id = Some(other_data.block_chain_id)

C7_Witness ==
  /\ pc = "done" /\ Len(txns) = 3 /\ Len(produced) = 2 /\ ir # <<>>
  /\ ret.tag = "Err" /\ ret.ir = <<>>
  /\ Unwrap(ret.err).block_num = Some(other_data.block_number)

LastTxn == txns[Len(txns)]
TxnFailed == pc = "done" /\ ~AllTxnsSucceeded
SelfDestructedBy(t) == SeqRange(t.nodes_used_by_txn.self_destructed_accounts)
StorageAccessedBy(t) == SeqRange(Firsts(t.nodes_used_by_txn.storage_accesses))

\* The last transaction failed in the storage-write pass: it has storage
\* writes, no later pass of it can report a missing storage trie, and the
\* reason is one the storage-write pass raises.
StorageWriteFailed ==
  /\ TxnFailed
  /\ LastTxn.nodes_used_by_txn.storage_writes # <<>>
  /\ LastTxn.nodes_used_by_txn.self_destructed_accounts = <<>>
  /\ \A i \in 1..Len(LastTxn.nodes_used_by_txn.state_writes) :
       LET sw == LastTxn.nodes_used_by_txn.state_writes[i]
       IN  sw[2].storage_trie_change => sw[1] \in StorageAccessedBy(LastTxn)
  /\ Unwrap(ret.err).reason[1] \in {"MissingAccountStorageTrie", "TrieOpError"}

FailedWriteAccount == LastTxn.nodes_used_by_txn.storage_writes[1][1]
FailedWriteSlot == LastTxn.nodes_used_by_txn.storage_writes[1][2][1][1]
FailedWriteValue == LastTxn.nodes_used_by_txn.storage_writes[1][2][1][2]

\* C8 as stated: a storage-write failure on account A, slot S while
\* processing transaction i of block b yields an error whose populated context
\* fields are the block number b, the transaction index i, the hashed address
\* of A and the slot S.
C8_Original ==
  StorageWriteFailed =>
     LET e == Unwrap(ret.err) IN
     /\ e.block_num = Some(other_data.block_number)
     /\ e.txn_idx = Some(Len(txns) - 1)
     /\ e.h_addr = Some(FailedWriteAccount)
     /\ e.slot = Some(FailedWriteSlot)
     /\ e.slot_value = None
     /\ e.addr = None

\* C8 amended: a storage-write failure while processing transaction i of
\* block b yields an error carrying the block number b, the chain id of the
\* block (process_txns always attaches it) and the transaction index i; when
\* the account has no storage trie the only other populated field is the hashed
\* address of the account, and when the trie insert fails the only other
\* populated fields are the hashed slot key and the slot value, without the
\* hashed address.
C8_StorageWriteErrorContext ==
  StorageWriteFailed =>
     LET e == Unwrap(ret.err) IN
     /\ e.block_num = Some(other_data.block_number)
     /\ e.block_chain_id = Some(other_data.block_chain_id)
     /\ e.txn_idx = Some(Len(txns) - 1)
     /\ e.addr = None
     /\ IF e.reason[1] = "MissingAccountStorageTrie"
        THEN /\ e.reason[2] = FailedWriteAccount
             /\ e.h_addr = Some(FailedWriteAccount)
             /\ e.slot = None
             /\ e.slot_value = None
        ELSE /\ e.h_addr = None
             /\ e.slot = Some(hash(FailedWriteSlot))
             /\ e.slot_value = Some(FailedWriteValue)

C8_Witness ==
  /\ StorageWriteFailed /\ Len(txns) = 3
  /\ Unwrap(ret.err).reason[1] = "TrieOpError"
  /\ Unwrap(ret.err).slot = Some("S1")
  /\ Unwrap(ret.err).txn_idx = Some(2)
  /\ Unwrap(ret.err).block_num = Some(7)

RepeatedSelfDestructFails(h, j) ==
  /\ j = Len(txns)
  /\ Len(produced) = j - 1
  /\ pc = "done"
  /\ ret.tag = "Err"
  /\ Unwrap(ret.err).reason = MissingAccountStorageTrie(h)

SelfDestructCommitted ==
  (pc = "txns" /\ txns # <<>>) =>
     \A h \in SelfDestructedBy(LastTxn) :
        /\ h \notin DOMAIN curr_block_tries.storage
        /\ TrieGet(curr_block_tries.state, h) = None
        /\ h \notin DOMAIN curr_block_tries.state.m

\* C9 as stated: after a transaction that self-destructs account A commits, A
\* has neither a storage trie nor a state-trie entry, and any later
\* transaction of the block that self-destructs A again fails with
\* MissingAccountStorageTrie(A).
C9_Original ==
  /\ SelfDestructCommitted
  /\ \A h \in HAddrs : \A i \in 1..Len(txns) : \A j \in (i + 1)..Len(txns) :
       (h \in SelfDestructedBy(txns[i]) /\ h \in SelfDestructedBy(txns[j]))
          => RepeatedSelfDestructFails(h, j)

\* C9 amended: after a transaction that self-destructs A commits, A has
\* neither a storage trie nor a state-trie entry; a later transaction of the
\* block whose delta application reaches a second self-destruct of A fails with
\* MissingAccountStorageTrie(A) provided no transaction after the first
\* self-destruct, the repeating one included, lists A among its storage
\* accesses (such a transaction re-creates an empty storage trie for A, and
\* the second self-destruct then succeeds).
C9_SelfDestruct ==
  /\ SelfDestructCommitted
  /\ \A h \in HAddrs : \A i \in 1..Len(txns) : \A j \in (i + 1)..Len(txns) :
       ( /\ h \in SelfDestructedBy(txns[i])
         /\ h \in SelfDestructedBy(txns[j])
         /\ \A k \in (i + 1)..j : h \notin StorageAccessedBy(txns[k]) )
          => RepeatedSelfDestructFails(h, j)

C9_Witness ==
  /\ Len(txns) = 3
  /\ "A" \in SelfDestructedBy(txns[1])
  /\ "A" \notin SelfDestructedBy(txns[2])
  /\ "A" \in SelfDestructedBy(txns[3])
  /\ RepeatedSelfDestructFails("A", 3)
  /\ "A" \notin DOMAIN curr_block_tries.state.m

\* C10: a storage write of the canonical zero value to a slot that is absent
\* from the account's storage trie never returns an error and leaves the root
\* hash of that storage trie unchanged.
C10_ZeroWriteToAbsentSlot ==
  [][ \A h \in HAddrs : \A s \in Slots :
        ( /\ pc = "txns"
          /\ Len(txns') = Len(txns) + 1
          /\ txns'[Len(txns')].nodes_used_by_txn.storage_writes =
               << <<h, << <<s, ZERO_STORAGE_SLOT_VAL_RLPED>> >> >> >>
          /\ h \in DOMAIN curr_block_tries.storage
          /\ TrieGet(curr_block_tries.storage[h], hash(s)) = None )
        => /\ AllTxnsSucceeded'
           /\ h \in DOMAIN curr_block_tries'.storage
           /\ TrieHash(curr_block_tries'.storage[h]) =
                TrieHash(curr_block_tries.storage[h]) ]_vars

C10_Witness ==
  /\ Len(txns) = 2 /\ AllTxnsSucceeded
  /\ txns[1] = SStore("A", "s1", ZERO_STORAGE_SLOT_VAL_RLPED)
  /\ txns[2] = SStore("A", "s1", ZERO_STORAGE_SLOT_VAL_RLPED)
  /\ "S1" \notin DOMAIN curr_block_tries.storage["A"].m
  /\ produced[2].trie_roots_after.state_root = produced[1].trie_roots_after.state_root

\* Write j of the sequence writes is the last one that targets its slot
IsLastWriteToSlot(writes, j) ==
  \A l \in (j + 1)..Len(writes) : writes[l][1] # writes[j][1]

\* C11: in every reachable trie state no storage trie holds the canonical
\* zero-slot encoding as a value: after a transaction is applied, a slot whose
\* last write carried ZERO_STORAGE_SLOT_VAL_RLPED is absent from the storage
\* trie (deleted, never inserted), and a slot whose last write carried any
\* other value holds that value.
C11_NoZeroSlotStored ==
  /\ \A h \in DOMAIN curr_block_tries.storage :
       \A k \in DOMAIN curr_block_tries.storage[h].m :
          curr_block_tries.storage[h].m[k] # ZERO_STORAGE_SLOT_VAL_RLPED
  /\ (txns # <<>> /\ AllTxnsSucceeded) =>
       \A i \in 1..Len(LastTxn.nodes_used_by_txn.storage_writes) :
          LET h == LastTxn.nodes_used_by_txn.storage_writes[i][1]
              writes == LastTxn.nodes_used_by_txn.storage_writes[i][2]
          IN  h \in DOMAIN curr_block_tries.storage =>
                \A j \in 1..Len(writes) :
                   IsLastWriteToSlot(writes, j) =>
                      LET k == hash(writes[j][1])
                          st == curr_block_tries.storage[h]
                      IN  IF writes[j][2] = ZERO_STORAGE_SLOT_VAL_RLPED
                          THEN k \notin DOMAIN st.m /\ TrieGet(st, k) = None
                          ELSE TrieGet(st, k) = Some(writes[j][2])

C11_Witness ==
  /\ pc = "txns" /\ Len(txns) = 2 /\ AllTxnsSucceeded
  /\ txns[1] = SStore("A", "s1", 2)
  /\ txns[2] = SStore("A", "s1", ZERO_STORAGE_SLOT_VAL_RLPED)
  /\ TrieGet(produced[2].tries.storage_tries["A"], "S1") = Some(2)
  /\ "S1" \notin DOMAIN curr_block_tries.storage["A"].m
  /\ "S2" \in DOMAIN curr_block_tries.storage["A"].m

\* The withdrawal step ran on a padded list whose last unit is a dummy
WithdrawalsOnDummy ==
  /\ pc = "done" /\ withdrawals # <<>>
  /\ ir # <<>> /\ ir[Len(ir)].signed_txn = None

WithdrawalHAddrs == {hash(withdrawals[i][1]) : i \in 1..Len(withdrawals)}

\* C12 as stated: when the block has withdrawals and the last IR unit is a
\* dummy (signed_txn = None), the withdrawal step succeeds in widening that
\* unit's state-trie subset: the path of every withdrawal recipient's hashed
\* address that exists in the live state trie is un-hashed in the subset, and
\* the subset's root hash is unchanged.
C12_Original ==
  WithdrawalsOnDummy =>
     LET last == ir[Len(ir)] IN
     /\ ret.tag = "Err" => Unwrap(ret.err).reason[1] # "MissingKeysCreatingSubPartialTrie"
     /\ \A h \in WithdrawalHAddrs :
          h \in DOMAIN curr_block_tries.state.m => Visible(last.tries.state_trie, h)
     /\ TrieHash(last.tries.state_trie) = TrieHash(initial_tries_for_dummies.state)

\* The widening of a dummy failed although the recipient has an account
C12_Witness ==
  /\ WithdrawalsOnDummy /\ txns = <<>>
  /\ withdrawals = << <<"a", 1>> >>
  /\ TrieGet(curr_block_tries.state, "A") # None
  /\ ret.tag = "Err"
  /\ Unwrap(ret.err).reason = MissingKeysCreatingSubPartialTrie("A", "state")
  /\ ~Visible(ir[2].tries.state_trie, "A")

\* The withdrawal step ran after every transaction had processed successfully
WithdrawalStepRan == pc = "done" /\ AllTxnsSucceeded /\ withdrawals # <<>>

\* Positions of the withdrawals whose recipient has no account in the live
\* state trie (the step never adds or removes an account)
MissingRecipients ==
  {i \in 1..Len(withdrawals) :
     TrieGet(curr_block_tries.state, hash(withdrawals[i][1])) = None}

FirstMissingRecipient ==
  withdrawals[CHOOSE i \in MissingRecipients : \A j \in MissingRecipients : i <= j][1]

MissingWithdrawalAccountReturned ==
  /\ ret.tag = "Err"
  /\ ret.ir = <<>>
  /\ Unwrap(ret.err).reason[1] = "MissingWithdrawalAccount"
  /\ Unwrap(ret.err).reason[2] = FirstMissingRecipient
  /\ Unwrap(ret.err).reason[3] = hash(FirstMissingRecipient)
  /\ Unwrap(ret.err).addr = Some(FirstMissingRecipient)
  /\ Unwrap(ret.err).h_addr = Some(hash(FirstMissingRecipient))

\* C13 as stated: if any withdrawal recipient has no account in the live
\* state trie, process_txns fails with MissingWithdrawalAccount carrying that
\* recipient's address and hashed address, and returns no IR units even though
\* all transactions processed successfully.
C13_Original ==
  (WithdrawalStepRan /\ MissingRecipients # {}) => MissingWithdrawalAccountReturned

\* What the code does when the last unit carries a signed transaction
C13_MissingRecipientAfterTxn ==
  (WithdrawalStepRan /\ MissingRecipients # {} /\ ir[Len(ir)].signed_txn # None)
     => MissingWithdrawalAccountReturned

\* An empty block with a withdrawal to an address without account fails in
\* the widening of the dummy, before the balances are looked at
C13_Witness ==
  /\ WithdrawalStepRan /\ txns = <<>>
  /\ withdrawals = << <<"b", 2>> >>
  /\ MissingRecipients = {1}
  /\ ret.tag = "Err"
  /\ Unwrap(ret.err).reason = MissingKeysCreatingSubPartialTrie("B", "state")
  /\ Unwrap(ret.err).addr = None

\* The sum of the amounts of wds addressed to the hashed address h
RECURSIVE WithdrawnTo(_, _)
WithdrawnTo(wds, h) ==
  IF wds = <<>> THEN 0
  ELSE (IF hash(Head(wds)[1]) = h THEN Head(wds)[2] ELSE 0) + WithdrawnTo(Tail(wds), h)

\* C14: after a successful withdrawal step the balance of every recipient
\* account in the live state trie is its balance after the last transaction
\* plus the sum of the withdrawal amounts addressed to it (repeated recipients
\* accumulate), no other account field and no other account or trie changes,
\* and the last unit's trie_roots_after.state_root is the hash of the updated
\* live state trie.
C14_WithdrawalBalances ==
  [][ (pc = "withdrawals" /\ withdrawals' # <<>> /\ ret'.tag = "Ok") =>
        LET old == curr_block_tries.state
            new == curr_block_tries'.state
        IN  /\ DOMAIN new.m = DOMAIN old.m
            /\ \A h \in DOMAIN old.m :
                 new.m[h] = [old.m[h] EXCEPT
                               !.balance = @ + WithdrawnTo(withdrawals', h)]
            /\ curr_block_tries'.storage = curr_block_tries.storage
            /\ curr_block_tries'.txn = curr_block_tries.txn
            /\ curr_block_tries'.receipt = curr_block_tries.receipt
            /\ ret'.ir[Len(ret'.ir)].trie_roots_after.state_root = TrieHash(new) ]_vars

C14_Witness ==
  /\ ReturnedOk /\ Len(txns) = 2
  /\ withdrawals = << <<"b", 2>>, <<"b", 2>> >>
  /\ produced[2].trie_roots_after.state_root["B"].balance = 2
  /\ TrieGet(curr_block_tries.state, "B") # None
  /\ Unwrap(TrieGet(curr_block_tries.state, "B")).balance = 6
  /\ Unwrap(TrieGet(curr_block_tries.state, "B")).nonce = 1
  /\ Unwrap(TrieGet(curr_block_tries.state, "A")).balance = 1
  /\ ret.ir[2].trie_roots_after.state_root = TrieHash(curr_block_tries.state)

C16_StorageWriteWithoutTrie ==
  [][ Len(txns') = Len(txns) + 1 =>
        LET writes == txns'[Len(txns')].nodes_used_by_txn.storage_writes
        IN  \A i \in 1..Len(writes) :
               LET h == writes[i][1] IN
               h \notin DOMAIN tries_at_start_of_txn'.storage =>
                  /\ pc' = "done" /\ ret'.tag = "Err" /\ ret'.ir = <<>>
                  /\ Len(produced') = Len(produced)
                  /\ h \notin DOMAIN curr_block_tries'.storage
                  /\ i = 1 =>
                       /\ Unwrap(ret'.err).reason = MissingAccountStorageTrie(h)
                       /\ Unwrap(ret'.err).h_addr = Some(h)
                       /\ Unwrap(ret'.err).slot = None
                       /\ curr_block_tries'.storage = tries_at_start_of_txn'.storage
     ]_vars

C16_Witness ==
  /\ pc = "done" /\ Len(txns) = 2 /\ Len(produced) = 1
  /\ txns[1] = SelfDestruct("A", FALSE)
  /\ txns[2].nodes_used_by_txn.storage_writes = << <<"A", << <<"s1", 2>> >> >> >>
  /\ txns[2].nodes_used_by_txn.storage_accesses = <<>>
  /\ "A" \notin DOMAIN tries_at_start_of_txn.storage
  /\ ret.tag = "Err"
  /\ Unwrap(ret.err).reason = MissingAccountStorageTrie("A")
  /\ Unwrap(ret.err).h_addr = Some("A")
  /\ "A" \notin DOMAIN curr_block_tries.storage

\* The account a state write w for h must leave, starting from start
StateWriteResult(w, start, storage_trie) ==
  [balance |-> IF IsSome(w.balance) THEN Unwrap(w.balance) ELSE start.balance,
   nonce |-> IF IsSome(w.nonce) THEN Unwrap(w.nonce) ELSE start.nonce,
   storage_root |-> IF w.storage_trie_change THEN TrieHash(storage_trie)
                    ELSE start.storage_root,
   code_hash |-> IF IsSome(w.code_hash) THEN Unwrap(w.code_hash) ELSE start.code_hash]

\* C17: a state write for a hashed account starts from the account's current
\* record, or from the canonical empty account when the account is absent,
\* changes only the fields present in the delta (balance, nonce, code hash, and
\* the storage root only when storage_trie_change is flagged), leaves every
\* other field and every other account unchanged, and writes the result back
\* under the same key.  Stated for a transaction that succeeds and destroys no
\* account.
C17_StateWriteFrame ==
  [][ ( /\ Len(txns') = Len(txns) + 1
        /\ Len(produced') = Len(produced) + 1
        /\ txns'[Len(txns')].nodes_used_by_txn.self_destructed_accounts = <<>> ) =>
        LET writes == txns'[Len(txns')].nodes_used_by_txn.state_writes
            written == SeqRange(Firsts(writes))
            old == curr_block_tries.state
            new == curr_block_tries'.state
        IN  /\ DOMAIN new.m = DOMAIN old.m \cup written
            /\ \A h \in DOMAIN old.m \ written : new.m[h] = old.m[h]
            /\ \A i \in 1..Len(writes) :
                 LET h == writes[i][1]
                     start == IF h \in DOMAIN old.m THEN old.m[h] ELSE EMPTY_ACCOUNT
                     storage_trie == IF h \in DOMAIN curr_block_tries'.storage
                                     THEN curr_block_tries'.storage[h]
                                     ELSE EmptyTrie
                 IN  /\ writes[i][2].storage_trie_change
                          => h \in DOMAIN curr_block_tries'.storage
                     /\ TrieGet(new, h) =
                          Some(StateWriteResult(writes[i][2], start, storage_trie)) ]_vars

C17_Witness ==
  /\ pc = "txns" /\ Len(txns) = 3 /\ AllTxnsSucceeded
  /\ txns[1] = SStore("B", "s1", 1)
  /\ txns[2] \in TransferTxns
  /\ txns[3] \in NoBytesTxns
  /\ TrieGet(curr_block_tries.state, "B") =
       Some([balance |-> 2, nonce |-> 1, storage_root |-> [k \in {"S1"} |-> 1],
             code_hash |-> EmptyCodeHash])
  /\ TrieGet(curr_block_tries.state, "A") =
       Some([balance |-> 1, nonce |-> 1, storage_root |-> PreImageStorageA,
             code_hash |-> "code2"])

ContextFields ==
  {"block_num", "block_chain_id", "txn_idx", "addr", "h_addr", "slot", "slot_value"}

FieldLabel(f) ==
  CASE f = "block_num" -> "Block num"
    [] f = "block_chain_id" -> "Block chain id"
    [] f = "txn_idx" -> "Txn idx"
    [] f = "addr" -> "Address"
    [] f = "h_addr" -> "Hashed address"
    [] f = "slot" -> "Slot"
    [] f = "slot_value" -> "Slot value"

\* The place of a label in the message
LabelOrder(l) ==
  CASE l = "Block num" -> 1
    [] l = "Block chain id" -> 2
    [] l = "Txn idx" -> 3
    [] l = "Address" -> 4
    [] l = "Hashed address" -> 5
    [] l = "Slot" -> 6
    [] l = "Hashed Slot" -> 7
    [] l = "Slot value" -> 8

RenderedError == Unwrap(ret.err)
PopulatedFields == {f \in ContextFields : IsSome(RenderedError[f])}
LinesLabelled(l) == {i \in 2..Len(rendered) : rendered[i][1] = l}

\* The reason comes first, a populated field has exactly one line, which
\* shows its value, and an absent field has no line at all
ReasonThenPopulatedFields ==
  /\ Len(rendered) >= 1
  /\ rendered[1][3] = RenderedError.reason
  /\ \A f \in ContextFields :
       IF f \in PopulatedFields
       THEN /\ Cardinality(LinesLabelled(FieldLabel(f))) = 1
            /\ \A i \in LinesLabelled(FieldLabel(f)) :
                 rendered[i][3] = Unwrap(RenderedError[f])
       ELSE LinesLabelled(FieldLabel(f)) = {}

RECURSIVE GasUsedUpTo(_)
GasUsedUpTo(n) ==
  IF n = 0 THEN 0 ELSE GasUsedUpTo(n - 1) + txns[n].meta.gas_used

\* C19: counters are running totals over the block: the unit produced for
\* transaction k (0-based) has txn_number_before = k, gas_used_before = the
\* gas used by transactions 0..k-1 and gas_used_after = the gas used by
\* transactions 0..k; after k successful transactions txn_number_after =
\* txn_number_before = k.
C19_RunningTotals ==
  /\ \A i \in 1..Len(produced) :
       /\ produced[i].txn_number_before = i - 1
       /\ produced[i].txn_number_after = i
       /\ produced[i].gas_used_before = GasUsedUpTo(i - 1)
       /\ produced[i].gas_used_after = GasUsedUpTo(i)
  /\ AllTxnsSucceeded =>
       /\ extra_data.txn_number_after = Len(txns)
       /\ extra_data.txn_number_before = Len(txns)
       /\ extra_data.gas_used_before = GasUsedUpTo(Len(txns))
       /\ extra_data.gas_used_after = GasUsedUpTo(Len(txns))

C19_Witness ==
  /\ pc = "txns" /\ Len(produced) = 3
  /\ txns[1].meta.gas_used = MaxGas
  /\ txns[2].meta.gas_used = 0
  /\ txns[3].meta.gas_used = 1
  /\ produced[3].txn_number_before = 2
  /\ produced[3].gas_used_before = MaxGas
  /\ produced[3].gas_used_after = MaxGas + 1
  /\ extra_data.txn_number_after = 3
  /\ extra_data.gas_used_before = MaxGas + 1

\* The trie keys of the transaction indices 0..n-1
TxnKeysBelow(n) == {TxnKey(i) : i \in 0..(n - 1)}

\* C20: the unit for transaction k carries trie subsets taken from the
\* snapshot made before transaction k mutates anything (its transaction and
\* receipt tries hold entries for the indices 0..k-1 only and its state is the
\* state left by transactions 0..k-1), while its trie_roots_after are the
\* hashes of the live tries after transaction k's transaction/receipt insertion
\* and deltas; the live transaction and receipt tries then hold exactly the
\* keys 0..k.
C20_SnapshotThenMutate ==
  [][ (Len(txns') = Len(txns) + 1 /\ Len(produced') = Len(produced) + 1) =>
        LET k == Len(txns)
            meta == txns'[k + 1].meta
            unit == produced'[Len(produced')]
            snapshot == tries_at_start_of_txn'
            live == curr_block_tries'
        IN  /\ snapshot.state = curr_block_tries.state
            /\ snapshot.txn = curr_block_tries.txn
            /\ snapshot.receipt = curr_block_tries.receipt
            /\ TrieHash(unit.tries.state_trie) = TrieHash(snapshot.state)
            /\ TrieHash(unit.tries.transactions_trie) = TrieHash(snapshot.txn)
            /\ TrieHash(unit.tries.receipts_trie) = TrieHash(snapshot.receipt)
            /\ \A h \in DOMAIN unit.tries.storage_tries :
                 TrieHash(unit.tries.storage_tries[h]) = TrieHash(snapshot.storage[h])
            /\ DOMAIN unit.tries.transactions_trie.m = TxnKeysBelow(k)
            /\ DOMAIN unit.tries.receipts_trie.m = TxnKeysBelow(k)
            /\ unit.trie_roots_after = calculate_trie_input_hashes(live)
            /\ DOMAIN live.txn.m = TxnKeysBelow(k + 1)
            /\ DOMAIN live.receipt.m = TxnKeysBelow(k + 1)
            /\ TrieGet(live.txn, TxnKey(k)) = Some(txn_bytes_of(meta))
            /\ TrieGet(live.receipt, TxnKey(k)) = Some(meta.receipt_node_bytes)
            /\ \A i \in TxnKeysBelow(k) :
                 /\ live.txn.m[i] = snapshot.txn.m[i]
                 /\ live.receipt.m[i] = snapshot.receipt.m[i] ]_vars

C20_Witness ==
  /\ pc = "txns" /\ Len(produced) = 3
  /\ DOMAIN produced[3].tries.transactions_trie.m = {TxnKey(0), TxnKey(1)}
  /\ DOMAIN produced[3].tries.receipts_trie.m = {TxnKey(0), TxnKey(1)}
  /\ DOMAIN curr_block_tries.txn.m = {TxnKey(0), TxnKey(1), TxnKey(2)}
  /\ produced[3].trie_roots_after.transactions_root = TrieHash(curr_block_tries.txn)
  /\ produced[3].trie_roots_after.state_root = TrieHash(curr_block_tries.state)
  /\ TrieHash(produced[3].tries.state_trie) # TrieHash(curr_block_tries.state)
  /\ TrieHash(produced[3].tries.state_trie) = TrieHash(tries_at_start_of_txn.state)

\* ---------------------------------------------------------------- C21
\* The step of the loop that has just handled a transaction
TxnStep == Len(txns') = Len(txns) + 1
StepTxn == txns'[Len(txns')]
StepDeltas == StepTxn.nodes_used_by_txn
StepSucceeded == Len(produced') = Len(produced) + 1
StepFailed == TxnStep /\ ~StepSucceeded

\* index i of the state writes asks for a storage-root refresh of an account
\* that has no storage trie once the transaction's tries are seeded
RefreshWithoutTrie(i) ==
  LET sw == StepDeltas.state_writes[i]
  IN  sw[2].storage_trie_change /\ sw[1] \notin DOMAIN tries_at_start_of_txn'.storage

\* C21: within one transaction the storage writes are applied before the
\* state writes: after a successful transaction every account whose state
\* write asks for a storage-root refresh (and that the transaction does not
\* destroy) has as storage_root the hash of its storage trie as this
\* transaction's storage writes left it.  When the first state write that asks
\* for a refresh of an account without storage trie is reached, the
\* transaction fails with MissingAccountStorageTrie for that account and the
\* account's record in the state trie is left as it was.
C21_StorageBeforeState ==
  [][TxnStep =>
       LET stws == StepDeltas.state_writes
           live == curr_block_tries'
       IN  /\ StepSucceeded =>
                \A i \in 1..Len(stws) :
                  LET h == stws[i][1]
                  IN  (stws[i][2].storage_trie_change /\ h \notin SelfDestructedBy(StepTxn))
                        => /\ h \in DOMAIN live.storage
                           /\ IsSome(TrieGet(live.state, h))
                           /\ Unwrap(TrieGet(live.state, h)).storage_root
                                = TrieHash(live.storage[h])
           /\ \A i \in 1..Len(stws) :
                (/\ RefreshWithoutTrie(i)
                 /\ \A j \in 1..(i - 1) : ~RefreshWithoutTrie(j)
                 /\ \A k \in 1..Len(StepDeltas.storage_writes) :
                      StepDeltas.storage_writes[k][1] \in DOMAIN tries_at_start_of_txn'.storage)
                  => /\ StepFailed
                     /\ Unwrap(ret'.err).reason = MissingAccountStorageTrie(stws[i][1])
                     /\ Unwrap(ret'.err).h_addr = Some(stws[i][1])
                     /\ TrieGet(live.state, stws[i][1])
                          = TrieGet(curr_block_tries.state, stws[i][1]) ]_vars

\* a two-slot store refreshed A's storage root from the trie its own storage
\* writes left, and the next transaction's refresh of B, which has no storage
\* trie, failed without writing B
C21_Witness ==
  /\ txns = <<TwoSlotStore, RootRefreshOfB>>
  /\ Len(produced) = 1
  /\ pc = "done" /\ ret.tag = "Err"
  /\ Unwrap(ret.err).reason = MissingAccountStorageTrie("B")
  /\ DOMAIN curr_block_tries.storage["A"].m = {"S1"}
  /\ curr_block_tries.storage["A"].m["S1"] = 2
  /\ Unwrap(TrieGet(curr_block_tries.state, "A")).storage_root
       = TrieHash(curr_block_tries.storage["A"])
  /\ Unwrap(TrieGet(curr_block_tries.state, "A")).storage_root # PreImageStorageA
  /\ TrieGet(curr_block_tries.state, "B") = None

\* ---------------------------------------------------------------- C22
\* The remaining children a sequence of slot writes leaves behind, in order:
\* a zero write to a present key of a two-entry trie collapses the branch
RECURSIVE CollapsedBySlotWrites(_, _, _)
CollapsedBySlotWrites(m, writes, i) ==
  IF i > Len(writes) THEN <<>>
  ELSE LET k == hash(writes[i][1]) IN
       IF writes[i][2] # ZERO_STORAGE_SLOT_VAL_RLPED
       THEN CollapsedBySlotWrites(MapPut(m, k, writes[i][2]), writes, i + 1)
       ELSE (IF k \in DOMAIN m /\ Cardinality(DOMAIN m) = 2
             THEN <<CHOOSE x \in DOMAIN m : x # k>> ELSE <<>>)
              \o CollapsedBySlotWrites(MapDel(m, k), writes, i + 1)

\* The remaining children a sequence of account removals leaves behind
RECURSIVE CollapsedByRemovals(_, _, _)
CollapsedByRemovals(keys, removed, i) ==
  IF i > Len(removed) THEN <<>>
  ELSE (IF removed[i] \in keys /\ Cardinality(keys) = 2
        THEN <<CHOOSE x \in keys : x # removed[i]>> ELSE <<>>)
         \o CollapsedByRemovals(keys \ {removed[i]}, removed, i + 1)

StoragePathsOf(out, h) ==
  IF h \in DOMAIN out.additional_storage_trie_paths_to_not_hash
  THEN out.additional_storage_trie_paths_to_not_hash[h] ELSE <<>>

\* C22: after a successful transaction the delta output holds, under each
\* hashed account with storage writes, exactly the remaining children of the
\* branches its slot deletions collapsed, and in the state-level list exactly
\* the remaining children of the branches its self-destructs collapsed in the
\* state trie; nothing else is recorded, and every recorded path is visible in
\* the subsets built for that transaction.
C22_CollapsedPathsRecorded ==
  [][(TxnStep /\ StepSucceeded) =>
       LET start == tries_at_start_of_txn'
           out == delta_out'
           unit == produced'[Len(produced')]
           sws == StepDeltas.storage_writes
           state_keys == DOMAIN start.state.m \cup SeqRange(Firsts(StepDeltas.state_writes))
       IN  /\ \A i \in 1..Len(sws) :
                StoragePathsOf(out, sws[i][1])
                  = CollapsedBySlotWrites(start.storage[sws[i][1]].m, sws[i][2], 1)
           /\ DOMAIN out.additional_storage_trie_paths_to_not_hash
                \subseteq SeqRange(Firsts(sws))
           /\ out.additional_state_trie_paths_to_not_hash
                = CollapsedByRemovals(state_keys, StepDeltas.self_destructed_accounts, 1)
           /\ SeqRange(out.additional_state_trie_paths_to_not_hash)
                \subseteq unit.tries.state_trie.vis
           /\ \A h \in DOMAIN unit.tries.storage_tries :
                SeqRange(StoragePathsOf(out, h)) \subseteq unit.tries.storage_tries[h].vis ]_vars

\* a zero store to slot s1 of A left S2 as the only child of A's storage trie,
\* and the self-destruct of A left B as the only child of the state trie
C22_SlotCollapse ==
  /\ Len(txns) = 1 /\ Len(produced) = 1
  /\ txns[1] = SStore("A", "s1", ZERO_STORAGE_SLOT_VAL_RLPED)
  /\ delta_out.additional_storage_trie_paths_to_not_hash = MapPut(EmptyMap, "A", <<"S2">>)
  /\ delta_out.additional_state_trie_paths_to_not_hash = <<>>
  /\ produced[1].tries.storage_tries["A"].vis = {"S1", "S2"}

C22_Witness ==
  /\ Len(txns) = 2 /\ Len(produced) = 2
  /\ txns[2] = SelfDestruct("A", FALSE)
  /\ delta_out.additional_state_trie_paths_to_not_hash = <<"B">>
  /\ delta_out.additional_storage_trie_paths_to_not_hash = EmptyMap
  /\ "B" \in produced[2].tries.state_trie.vis
  /\ DOMAIN curr_block_tries.state.m = {"B"}

\* ---------------------------------------------------------------- C23
MinOf(S) == CHOOSE x \in S : \A y \in S : x <= y

\* The entries of the three passes that cannot be applied: a storage write or
\* a storage-root refresh for an account without storage trie, a self-destruct
\* of an account without storage trie or already removed by this transaction
StorageFailAt ==
  {i \in 1..Len(StepDeltas.storage_writes) :
     StepDeltas.storage_writes[i][1] \notin DOMAIN tries_at_start_of_txn'.storage}
StateFailAt == {i \in 1..Len(StepDeltas.state_writes) : RefreshWithoutTrie(i)}
DestroyFailAt ==
  LET sds == StepDeltas.self_destructed_accounts
  IN  {i \in 1..Len(sds) :
         \/ sds[i] \notin DOMAIN tries_at_start_of_txn'.storage
         \/ \E j \in 1..(i - 1) : sds[j] = sds[i]}

\* How many entries of each pass precede the first failing step
StorageApplied ==
  IF StorageFailAt # {} THEN MinOf(StorageFailAt) - 1 ELSE Len(StepDeltas.storage_writes)
StateApplied ==
  IF StorageFailAt # {} THEN 0
  ELSE IF StateFailAt # {} THEN MinOf(StateFailAt) - 1
  ELSE Len(StepDeltas.state_writes)
DestroyApplied ==
  IF StorageFailAt # {} \/ StateFailAt # {} THEN 0
  ELSE IF DestroyFailAt # {} THEN MinOf(DestroyFailAt) - 1
  ELSE Len(StepDeltas.self_destructed_accounts)
DeltaFails == StorageFailAt # {} \/ StateFailAt # {} \/ DestroyFailAt # {}
FailingAccount ==
  IF StorageFailAt # {} THEN StepDeltas.storage_writes[MinOf(StorageFailAt)][1]
  ELSE IF StateFailAt # {} THEN StepDeltas.state_writes[MinOf(StateFailAt)][1]
  ELSE StepDeltas.self_destructed_accounts[MinOf(DestroyFailAt)]

\* The account h keeps in the live tries what it had before the step
AccountUntouched(h) ==
  /\ TrieGet(curr_block_tries'.state, h) = TrieGet(curr_block_tries.state, h)
  /\ h \in DOMAIN curr_block_tries'.storage <=> h \in DOMAIN tries_at_start_of_txn'.storage
  /\ h \in DOMAIN curr_block_tries'.storage
       => curr_block_tries'.storage[h] = tries_at_start_of_txn'.storage[h]

\* C23: delta application stops at the first step that cannot be applied and
\* returns its error.  Nothing is rolled back: the transaction and receipt
\* insertion and every storage write, state write and removal that precedes
\* the failing step are in the live trie state afterwards, and no step that
\* follows the failing one has been applied.
C23_FirstErrorNotAtomic ==
  [][(TxnStep /\ DeltaFails) =>
       LET live == curr_block_tries'
           sws == StepDeltas.storage_writes
           stws == StepDeltas.state_writes
           sds == StepDeltas.self_destructed_accounts
           touched == {sws[i][1] : i \in 1..StorageApplied}
                        \cup {stws[i][1] : i \in 1..StateApplied}
                        \cup {sds[i] : i \in 1..DestroyApplied}
       IN  /\ StepFailed
           /\ Unwrap(ret'.err).reason = MissingAccountStorageTrie(FailingAccount)
           /\ TrieGet(live.txn, TxnKey(Len(txns))) = Some(txn_bytes_of(StepTxn.meta))
           /\ TrieGet(live.receipt, TxnKey(Len(txns))) = Some(StepTxn.meta.receipt_node_bytes)
           /\ \A i \in 1..StorageApplied : \A n \in 1..Len(sws[i][2]) :
                (IsLastWriteToSlot(sws[i][2], n) /\ sws[i][1] \notin SeqRange(sds))
                  => TrieGet(live.storage[sws[i][1]], hash(sws[i][2][n][1]))
                       = IF sws[i][2][n][2] = ZERO_STORAGE_SLOT_VAL_RLPED THEN None
                         ELSE Some(sws[i][2][n][2])
           /\ \A i \in 1..StateApplied :
                stws[i][1] \notin SeqRange(sds)
                  => LET r == Unwrap(TrieGet(live.state, stws[i][1]))
                         w == stws[i][2]
                     IN  /\ IsSome(w.balance) => r.balance = Unwrap(w.balance)
                         /\ IsSome(w.nonce) => r.nonce = Unwrap(w.nonce)
                         /\ IsSome(w.code_hash) => r.code_hash = Unwrap(w.code_hash)
           /\ \A i \in 1..DestroyApplied :
                /\ sds[i] \notin DOMAIN live.storage
                /\ sds[i] \notin DOMAIN live.state.m
           /\ \A h \in HAddrs \ touched : AccountUntouched(h) ]_vars

\* a balance write to A stayed in the live state trie although the same
\* transaction then failed to destroy B, and the transaction is in the
\* transaction trie
C23_Witness ==
  /\ txns = <<WriteAThenDestroyB>>
  /\ pc = "done" /\ ret.tag = "Err" /\ produced = <<>>
  /\ Unwrap(ret.err).reason = MissingAccountStorageTrie("B")
  /\ Unwrap(TrieGet(curr_block_tries.state, "A")).balance = 5
  /\ TrieGet(curr_block_tries.txn, TxnKey(0)) = Some("raw")
  /\ "A" \in DOMAIN curr_block_tries.storage

\* ---------------------------------------------------------------- C24
\* C24: transactions are handled in index order and handling stops at the
\* first failure: a transaction is handled only while every earlier one has
\* succeeded, the unit of a successful one carries its index, the error of a
\* failing one carries its index, and once an error is returned neither the
\* trie state nor the counters nor the list of handled transactions change.
C24_IndexOrderStopAtFirstFailure ==
  [][/\ TxnStep =>
          /\ ret = NotReturned /\ AllTxnsSucceeded
          /\ txns' = Append(txns, StepTxn)
          /\ StepSucceeded => produced'[Len(produced')].txn_number_before = Len(txns)
          /\ ~StepSucceeded =>
               /\ ret'.tag = "Err"
               /\ Unwrap(ret'.err).txn_idx = Some(Len(txns))
               /\ produced' = produced
     /\ ret.tag = "Err" => UNCHANGED <<txns, curr_block_tries, extra_data, produced>> ]_vars

\* the second transaction failed after one that succeeded
C24_Witness ==
  /\ pc = "done" /\ ret.tag = "Err"
  /\ Len(txns) = 2 /\ Len(produced) = 1
  /\ Unwrap(ret.err).txn_idx = Some(1)
  /\ extra_data.txn_number_before = 1
  /\ produced[1].txn_number_before = 0

\* ---------------------------------------------------------------- C25
\* C25: padding runs before the withdrawal step: whenever the withdrawal step
\* is about to run, and after it ran on a non-empty withdrawals list, the IR
\* list has at least two entries, and the step never ends in the panic of the
\* empty-list expectation, whatever the number of transactions.
C25_PaddedBeforeWithdrawals ==
  /\ pc = "withdrawals" => Len(ir) >= 2
  /\ (pc = "done" /\ withdrawals # <<>>) => (Len(ir) >= 2 /\ ret.tag # "Panic")

\* a block without transactions went through the withdrawal step with the two
\* dummies of the padding
C25_Witness ==
  /\ pc = "done" /\ txns = <<>> /\ withdrawals # <<>>
  /\ Len(ir) = 2 /\ ret.tag # "Panic"
  /\ ir[1].signed_txn = None /\ ir[2].signed_txn = None

\* ---------------------------------------------------------------- C26
\* The padding step has run on a block whose transactions all succeeded
Padded == pc \in {"withdrawals", "done"} /\ AllTxnsSucceeded
\* Positions of the dummies that padding put into the IR list
PaddingDummies ==
  IF ~Padded THEN {}
  ELSE IF Len(txns) = 0 THEN {1, 2}
  ELSE IF Len(txns) = 1 THEN {1}
  ELSE {}

\* C26: the two assertions of dummy construction hold wherever process_txns
\* builds a dummy: the copy of the initial counters passes them; while no
\* transaction has been handled the live counters equal that copy, so the pair
\* of an empty block passes them; padding never panics; and every dummy that
\* padding built carries the initial counters, with before equal to after,
\* also when a transaction has advanced the live counters.
C26_DummySanityChecksHold ==
  /\ DummySanityChecks(extra_data_for_dummies)
  /\ txns = <<>> => (extra_data = extra_data_for_dummies /\ DummySanityChecks(extra_data))
  /\ (pc = "done" /\ AllTxnsSucceeded /\ withdrawals = <<>>) => ret.tag = "Ok"
  /\ \A i \in PaddingDummies :
       /\ ir[i].signed_txn = None
       /\ ir[i].txn_number_before = ir[i].txn_number_after
       /\ ir[i].gas_used_before = ir[i].gas_used_after
       /\ ir[i].txn_number_before = extra_data_for_dummies.txn_number_before
       /\ ir[i].gas_used_before = extra_data_for_dummies.gas_used_before

\* one transaction advanced the live counters, and the dummy prepended to its
\* unit still carries the initial ones
C26_Witness ==
  /\ pc = "withdrawals" /\ Len(txns) = 1 /\ Len(ir) = 2
  /\ extra_data.txn_number_before = 1 /\ extra_data.gas_used_before > 0
  /\ ir[1].signed_txn = None
  /\ ir[1].txn_number_before = 0 /\ ir[1].txn_number_after = 0
  /\ ir[1].gas_used_before = 0 /\ ir[1].gas_used_after = 0
  /\ ir[2].txn_number_before = 0 /\ ir[2].gas_used_after > 0

\* ---------------------------------------------------------------- C27
\* C27: a new error holds its reason and no context field; a builder call
\* sets its own field to the value it is given and leaves the reason and the
\* six other context fields as they were, so the hashed address, slot and slot
\* value attached at the failure survive the later calls that attach the
\* transaction index, the block number and the chain id.
C27_BuildersSetOwnFieldOnly ==
  [][/\ (pc = "new" /\ pc' = "built") =>
          /\ Unwrap(ret'.err).reason \in DisplayReasons
          /\ \A f \in ContextFields : Unwrap(ret'.err)[f] = None
     /\ pc' \in ContextFields =>
          /\ Unwrap(ret'.err).reason = Unwrap(ret.err).reason
          /\ IsSome(Unwrap(ret'.err)[pc'])
          /\ \A g \in ContextFields \ {pc'} : Unwrap(ret'.err)[g] = Unwrap(ret.err)[g] ]_vars

\* the hashed address, slot and slot value attached first are still there
\* after txn_idx, block_num and block_chain_id were attached
C27_Witness ==
  /\ pc = "block_chain_id"
  /\ Unwrap(ret.err).reason = TrieOpError("S1")
  /\ Unwrap(ret.err).h_addr = Some("A")
  /\ Unwrap(ret.err).slot = Some("S1")
  /\ Unwrap(ret.err).slot_value = Some(2)
  /\ Unwrap(ret.err).txn_idx = Some(1)
  /\ Unwrap(ret.err).block_num = Some(7)
  /\ Unwrap(ret.err).block_chain_id = Some(1)
  /\ Unwrap(ret.err).addr = None

\* ---------------------------------------------------------------- C28
\* C28: the checkpoint state root of the block is carried unchanged by the
\* counters and by every unit, real or dummy, of the IR list, at every point
\* of process_txns and in the sequence it returns.
C28_CheckpointRootConstant ==
  /\ extra_data.checkpoint_state_trie_root = other_data.checkpoint_state_trie_root
  /\ \A i \in 1..Len(ir) :
       ir[i].checkpoint_state_trie_root = other_data.checkpoint_state_trie_root
  /\ ret.tag = "Ok" =>
       \A i \in 1..Len(ret.ir) :
         ret.ir[i].checkpoint_state_trie_root = other_data.checkpoint_state_trie_root

\* a returned sequence of a padding dummy and a real unit with withdrawals
C28_Witness ==
  /\ pc = "done" /\ ret.tag = "Ok" /\ Len(txns) = 1 /\ Len(ret.ir) = 2
  /\ ret.ir[1].signed_txn = None /\ ret.ir[2].signed_txn # None
  /\ ret.ir[2].withdrawals # <<>>
  /\ ret.ir[1].checkpoint_state_trie_root = "cp7"
  /\ ret.ir[2].checkpoint_state_trie_root = "cp7"

\* ---------------------------------------------------------------- C29
\* process_txns went through the withdrawal step with an empty list
EmptyWithdrawalStepRan == pc = "done" /\ AllTxnsSucceeded /\ withdrawals = <<>>

\* C29: with an empty withdrawals list the withdrawal step does nothing: the
\* padded IR list is returned as it is, no unit has withdrawals, the last unit
\* is the one transaction processing produced (or, for an empty block, the
\* dummy built from the initial tries), and the live state trie is the one
\* the last transaction left, whose root the last unit records.
C29_EmptyWithdrawalsNoOp ==
  EmptyWithdrawalStepRan =>
    /\ ret = RetOk(ir)
    /\ \A i \in 1..Len(ir) : ir[i].withdrawals = <<>>
    /\ ir[Len(ir)].trie_roots_after.state_root = TrieHash(curr_block_tries.state)
    /\ txns # <<>> => ir[Len(ir)] = produced[Len(produced)]
    /\ txns = <<>> =>
         /\ curr_block_tries = initial_tries_for_dummies
         /\ ir[Len(ir)] = create_dummy_gen_input(other_data, extra_data_for_dummies,
                                                 initial_tries_for_dummies)

\* the last unit is a transaction without bytes, which the withdrawal step
\* would treat as a dummy: with no withdrawals its state subset is untouched
C29_Witness ==
  /\ EmptyWithdrawalStepRan /\ ret.tag = "Ok"
  /\ Len(txns) = 2 /\ Len(ret.ir) = 2
  /\ ret.ir[2].signed_txn = None
  /\ ret.ir[2].tries.state_trie.vis # {}
  /\ ret.ir[2].withdrawals = <<>>
  /\ ret.ir[2].trie_roots_after.state_root = TrieHash(curr_block_tries.state)

\* ---------------------------------------------------------------- C30
\* C30: a rollback to the checkpoint the caller holds, after any appends to
\* any of the seven lists since it was taken, leaves every list with exactly
\* the content it had when the checkpoint was taken; a rollback lengthens no
\* list; and a second rollback to the same checkpoint changes nothing.
C30_RollbackRestores ==
  [][(IsSome(saved) /\ traces' = rollback(traces, Unwrap(saved)) /\ saved' = saved) =>
       /\ traces' = traces_at_checkpoint
       /\ \A l \in TraceLists : Len(traces'[l]) <= Len(traces[l])
       /\ rollback(traces', Unwrap(saved)) = traces' ]_vars

\* one operation was appended before the checkpoint and two after it, to
\* different lists; the rollback removed those two and kept the first
C30_Witness ==
  /\ IsSome(saved) /\ appended = 3
  /\ Unwrap(saved).keccak_sponge_len = 1 /\ Unwrap(saved).keccak_len = 0
  /\ traces.keccak_sponge_ops = <<1>>
  /\ \A l \in TraceLists \ {"keccak_sponge_ops"} : traces[l] = <<>>
  /\ traces = traces_at_checkpoint

====
